---- MODULE Spec2Model ----
(***************************************************************************)
(* Forward-chaining inference engine of Huella_Carbono                     *)
(* (src/motor_inferencia.py) with its rule provider                        *)
(* (src/firebase_config.py).                                               *)
(*                                                                         *)
(* Representation of Python data:                                          *)
(*   - a scalar value is a tagged record: Num(n), Txt(s) or None, so that  *)
(*     Python's == and < between values of different types can be modelled *)
(*     (== is False, < raises TypeError);                                  *)
(*   - a string that the code takes apart (a fact's tipo and atributo, a   *)
(*     condition key) is the sequence of its underscore-separated words:   *)
(*     "nivel_contaminacion" is <<"nivel", "contaminacion">>.  No word     *)
(*     contains "_" and no word other than "que" starts with "que", so     *)
(*     endswith/replace on the "_mayor_que" and "_menor_que" suffixes and  *)
(*     the f"{tipo}_{atributo}" join are exact on words;                   *)
(*   - a dict whose keys the code only tests and indexes (a conclusion, a  *)
(*     seed record) is a function on the set of its keys; a dict that is   *)
(*     iterated (rule groups, rules, conditions) is the sequence of its    *)
(*     items, in insertion order.                                          *)
(***************************************************************************)
EXTENDS Integers, Sequences, FiniteSets, TLC

\* ------------------------------------------------------------------------
\* Python scalar values
\* ------------------------------------------------------------------------
Num(n) == [t |-> "num", v |-> n]

Txt(s) == [t |-> "txt", v |-> s]

None == [t |-> "none", v |-> 0]

\* Python's a == b on scalars: values of different types are unequal.
PyEq(a, b) == a.t = b.t /\ a.v = b.v

\* The text constants of the model in Python's str order (code points).
OrdenTextos ==
    << "8500", "Alto", "Desconocido", "Industrial Pesado", "Medio",
       "Muy Alto", "Rural" >>

PosTexto(s) == CHOOSE i \in 1..Len(OrdenTextos) : OrdenTextos[i] = s

\* Python's a > b: "True", "False", or "TypeError" for str against int.
PyGt(a, b) ==
    CASE a.t = "num" /\ b.t = "num" -> IF a.v > b.v THEN "True" ELSE "False"
      [] a.t = "txt" /\ b.t = "txt" ->
            IF PosTexto(a.v) > PosTexto(b.v) THEN "True" ELSE "False"
      [] OTHER -> "TypeError"

\* Python's a < b.
PyLt(a, b) ==
    CASE a.t = "num" /\ b.t = "num" -> IF a.v < b.v THEN "True" ELSE "False"
      [] a.t = "txt" /\ b.t = "txt" ->
            IF PosTexto(a.v) < PosTexto(b.v) THEN "True" ELSE "False"
      [] OTHER -> "TypeError"

PyBool(b) == IF b THEN "True" ELSE "False"

\* ------------------------------------------------------------------------
\* Strings as sequences of words
\* ------------------------------------------------------------------------
\* str.replace('_', ''): the words glued together, a single word.
RECURSIVE Pegar(_)
Pegar(w) == IF Len(w) = 0 THEN "" ELSE Head(w) \o Pegar(Tail(w))

SinGuiones(w) == << Pegar(w) >>

\* str.endswith('_' + a + '_' + b): the last two words, after an underscore.
TerminaEn(clave, a, b) ==
    /\ Len(clave) >= 3
    /\ clave[Len(clave) - 1] = a
    /\ clave[Len(clave)] = b

\* str.replace('_' + a + '_' + b, ''): every occurrence, scanning from the
\* left without rescanning what the replacement produced.  primera is TRUE at
\* the first word of the string, which no underscore precedes.
RECURSIVE QuitarSufijoDesde(_, _, _, _)
QuitarSufijoDesde(w, a, b, primera) ==
    IF Len(w) = 0 THEN << >>
    ELSE IF ~primera /\ Len(w) >= 2 /\ w[1] = a /\ w[2] = b
         THEN QuitarSufijoDesde(SubSeq(w, 3, Len(w)), a, b, FALSE)
         ELSE << w[1] >> \o QuitarSufijoDesde(Tail(w), a, b, FALSE)

QuitarSufijo(clave, a, b) == QuitarSufijoDesde(clave, a, b, TRUE)

\* ------------------------------------------------------------------------
\* Hecho and MemoriaTrabajo
\* ------------------------------------------------------------------------
\* Hecho.confianza defaults to 1.0; confidences are counted in tenths.
ConfianzaDefecto == 10

Hecho(tipo, atributo, valor) ==
    [tipo |-> tipo, atributo |-> atributo, valor |-> valor,
     confianza |-> ConfianzaDefecto]

HechoConf(tipo, atributo, valor, confianza) ==
    [tipo |-> tipo, atributo |-> atributo, valor |-> valor,
     confianza |-> confianza]

MismaTerna(h, g) ==
    h.tipo = g.tipo /\ h.atributo = g.atributo /\ PyEq(h.valor, g.valor)

\* agregar_hecho as it would be if the duplicate test compared whole facts,
\* confidence included.
agregar_hecho_con_confianza(hs, hecho) ==
    IF ~ \E i \in 1..Len(hs) : hs[i] = hecho
    THEN Append(hs, hecho)
    ELSE hs

\* agregar_hecho as it would be without the search for an equal triple.
agregar_hecho_sin_dedup(hs, hecho) == Append(hs, hecho)

\* agregar_hecho as it would be if a new fact were put before the others.
agregar_hecho_al_frente(hs, hecho) ==
    IF ~ \E i \in 1..Len(hs) : MismaTerna(hs[i], hecho)
    THEN << hecho >> \o hs
    ELSE hs

agregar_hecho(hs, hecho) ==
    IF ~ \E i \in 1..Len(hs) : MismaTerna(hs[i], hecho)
    THEN Append(hs, hecho)
    ELSE hs

RECURSIVE obtener_valor(_, _, _)
obtener_valor(hs, tipo, atributo) ==
    IF Len(hs) = 0 THEN None
    ELSE IF Head(hs).tipo = tipo /\ Head(hs).atributo = atributo
         THEN Head(hs).valor
         ELSE obtener_valor(Tail(hs), tipo, atributo)

\* ------------------------------------------------------------------------
\* Condition evaluation
\* ------------------------------------------------------------------------
\* _buscar_valor_hecho as it would be without the f"{tipo}_{atributo}"
\* spelling of a key.
RECURSIVE buscar_valor_hecho_sin_tipo(_, _)
buscar_valor_hecho_sin_tipo(atributo, hechos) ==
    IF Len(hechos) = 0 THEN None
    ELSE LET hecho == Head(hechos) IN
         IF \/ atributo = hecho.atributo
            \/ atributo = SinGuiones(hecho.atributo)
            \/ /\ atributo = <<"emision", "per", "capita">>
               /\ hecho.atributo = <<"per", "capita">>
         THEN hecho.valor
         ELSE buscar_valor_hecho_sin_tipo(atributo, Tail(hechos))

\* _buscar_valor_hecho as it would be if the loop did not return at the
\* first fact that the key designates: the last one wins.
RECURSIVE buscar_valor_hecho_ultimo(_, _)
buscar_valor_hecho_ultimo(atributo, hechos) ==
    IF Len(hechos) = 0 THEN None
    ELSE LET hecho == hechos[Len(hechos)] IN
         IF \/ atributo = hecho.atributo
            \/ atributo = hecho.tipo \o hecho.atributo
            \/ atributo = SinGuiones(hecho.atributo)
            \/ /\ atributo = <<"emision", "per", "capita">>
               /\ hecho.atributo = <<"per", "capita">>
         THEN hecho.valor
         ELSE buscar_valor_hecho_ultimo(atributo,
                                        SubSeq(hechos, 1, Len(hechos) - 1))

\* _buscar_valor_hecho as it would be if a key could also spell a fact as
\* f"{atributo}_{tipo}".
RECURSIVE buscar_valor_hecho_atributo_tipo(_, _)
buscar_valor_hecho_atributo_tipo(atributo, hechos) ==
    IF Len(hechos) = 0 THEN None
    ELSE LET hecho == Head(hechos) IN
         IF \/ atributo = hecho.atributo
            \/ atributo = hecho.tipo \o hecho.atributo
            \/ atributo = hecho.atributo \o hecho.tipo
            \/ atributo = SinGuiones(hecho.atributo)
            \/ atributo = <<"cantidad">> /\ hecho.atributo = <<"cantidad">>
            \/ /\ atributo = <<"emision", "per", "capita">>
               /\ hecho.atributo = <<"per", "capita">>
         THEN hecho.valor
         ELSE buscar_valor_hecho_atributo_tipo(atributo, Tail(hechos))

\* The value of the first fact, in insertion order, that the key designates;
\* None when there is none (and when that fact's value is None).
RECURSIVE buscar_valor_hecho(_, _)
buscar_valor_hecho(atributo, hechos) ==
    IF Len(hechos) = 0 THEN None
    ELSE LET hecho == Head(hechos) IN
         IF \/ atributo = hecho.atributo
            \/ atributo = hecho.tipo \o hecho.atributo
            \/ atributo = SinGuiones(hecho.atributo)
            \/ atributo = <<"cantidad">> /\ hecho.atributo = <<"cantidad">>
            \/ /\ atributo = <<"emision", "per", "capita">>
               /\ hecho.atributo = <<"per", "capita">>
         THEN hecho.valor
         ELSE buscar_valor_hecho(atributo, Tail(hechos))

\* condicion is the sequence of the items <<clave, valor>> of the dict.
TieneClave(condicion, clave) ==
    \E i \in 1..Len(condicion) : condicion[i][1] = clave

ValorDeClave(condicion, clave) ==
    condicion[CHOOSE i \in 1..Len(condicion) : condicion[i][1] = clave][2]

\* condicion.get('operador', 'AND')
Operador(condicion) ==
    IF TieneClave(condicion, <<"operador">>)
    THEN ValorDeClave(condicion, <<"operador">>)
    ELSE Txt("AND")

\* The pass of the loop as it would be if the _alt target were accepted
\* whenever the value found differs from the target.
EvaluarTerminoAltSiDistinto(condicion, clave, valor, hechos) ==
    IF TerminaEn(clave, "mayor", "que")
    THEN LET valor_hecho ==
                 buscar_valor_hecho(QuitarSufijo(clave, "mayor", "que"), hechos)
         IN  IF valor_hecho # None THEN PyGt(valor_hecho, valor) ELSE "False"
    ELSE IF TerminaEn(clave, "menor", "que")
    THEN LET valor_hecho ==
                 buscar_valor_hecho(QuitarSufijo(clave, "menor", "que"), hechos)
         IN  IF valor_hecho # None THEN PyLt(valor_hecho, valor) ELSE "False"
    ELSE LET valor_hecho == buscar_valor_hecho(clave, hechos) IN
         IF valor_hecho # None /\ PyEq(valor_hecho, valor)
         THEN "True"
         ELSE IF TieneClave(condicion, clave \o <<"alt">>)
              THEN PyBool(valor_hecho # None
                          /\ PyEq(valor_hecho,
                                  ValorDeClave(condicion, clave \o <<"alt">>)))
              ELSE "False"

\* The pass of the loop as it would be if the comparisons tested
\* `if valor_hecho:` for `if valor_hecho is not None:`.
EvaluarTerminoFalsy(condicion, clave, valor, hechos) ==
    LET Verdadero(x) == x # None /\ x # Num(0) /\ x # Txt("") IN
    IF TerminaEn(clave, "mayor", "que")
    THEN LET valor_hecho ==
                 buscar_valor_hecho(QuitarSufijo(clave, "mayor", "que"), hechos)
         IN  IF Verdadero(valor_hecho) THEN PyGt(valor_hecho, valor)
             ELSE "False"
    ELSE IF TerminaEn(clave, "menor", "que")
    THEN LET valor_hecho ==
                 buscar_valor_hecho(QuitarSufijo(clave, "menor", "que"), hechos)
         IN  IF Verdadero(valor_hecho) THEN PyLt(valor_hecho, valor)
             ELSE "False"
    ELSE LET valor_hecho == buscar_valor_hecho(clave, hechos) IN
         IF valor_hecho # None
         THEN PyBool(PyEq(valor_hecho, valor))
         ELSE IF TieneClave(condicion, clave \o <<"alt">>)
              THEN LET valor_alt == ValorDeClave(condicion, clave \o <<"alt">>)
                       valor_hecho_alt == buscar_valor_hecho(clave, hechos)
                   IN  IF valor_hecho_alt # None
                       THEN PyBool(PyEq(valor_hecho_alt, valor_alt))
                       ELSE "False"
              ELSE "False"

\* The pass of the loop as it would be if an equality on an attribute that
\* no fact provides were taken as satisfied.
EvaluarTerminoAusenteCierto(condicion, clave, valor, hechos) ==
    IF TerminaEn(clave, "mayor", "que")
    THEN LET valor_hecho ==
                 buscar_valor_hecho(QuitarSufijo(clave, "mayor", "que"), hechos)
         IN  IF valor_hecho # None THEN PyGt(valor_hecho, valor) ELSE "False"
    ELSE IF TerminaEn(clave, "menor", "que")
    THEN LET valor_hecho ==
                 buscar_valor_hecho(QuitarSufijo(clave, "menor", "que"), hechos)
         IN  IF valor_hecho # None THEN PyLt(valor_hecho, valor) ELSE "False"
    ELSE LET valor_hecho == buscar_valor_hecho(clave, hechos) IN
         IF valor_hecho # None
         THEN PyBool(PyEq(valor_hecho, valor))
         ELSE "True"

\* What one pass of the loop over condicion.items() appends to resultados:
\* "True" or "False", or "TypeError" when the comparison raises.
EvaluarTermino(condicion, clave, valor, hechos) ==
    IF TerminaEn(clave, "mayor", "que")
    THEN LET valor_hecho ==
                 buscar_valor_hecho(QuitarSufijo(clave, "mayor", "que"), hechos)
         IN  IF valor_hecho # None THEN PyGt(valor_hecho, valor) ELSE "False"
    ELSE IF TerminaEn(clave, "menor", "que")
    THEN LET valor_hecho ==
                 buscar_valor_hecho(QuitarSufijo(clave, "menor", "que"), hechos)
         IN  IF valor_hecho # None THEN PyLt(valor_hecho, valor) ELSE "False"
    ELSE LET valor_hecho == buscar_valor_hecho(clave, hechos) IN
         IF valor_hecho # None
         THEN PyBool(PyEq(valor_hecho, valor))
         ELSE IF TieneClave(condicion, clave \o <<"alt">>)
              THEN LET valor_alt == ValorDeClave(condicion, clave \o <<"alt">>)
                       valor_hecho_alt == buscar_valor_hecho(clave, hechos)
                   IN  IF valor_hecho_alt # None
                       THEN PyBool(PyEq(valor_hecho_alt, valor_alt))
                       ELSE "False"
              ELSE "False"

\* The indices of the items that are terms (every key but 'operador').
Terminos(condicion) ==
    {i \in 1..Len(condicion) : condicion[i][1] # <<"operador">>}

Resultado(condicion, i, hechos) ==
    EvaluarTermino(condicion, condicion[i][1], condicion[i][2], hechos)

\* evaluar_condicion as it would be if reduce() were applied to an empty list
\* of results too: AND of no term is True.
evaluar_condicion_vacua(condicion, hechos) ==
    LET operador == Operador(condicion)
        resultados == [i \in Terminos(condicion) |->
                          Resultado(condicion, i, hechos)]
    IN  IF \E i \in Terminos(condicion) : resultados[i] = "TypeError"
        THEN "TypeError"
        ELSE IF operador = Txt("AND")
        THEN PyBool(\A i \in Terminos(condicion) : resultados[i] = "True")
        ELSE IF operador = Txt("OR")
        THEN PyBool(\E i \in Terminos(condicion) : resultados[i] = "True")
        ELSE "False"

\* evaluar_condicion as it would be if the operator defaulted to OR.
evaluar_condicion_defecto_or(condicion, hechos) ==
    LET operador == IF TieneClave(condicion, <<"operador">>)
                    THEN ValorDeClave(condicion, <<"operador">>)
                    ELSE Txt("OR")
        resultados == [i \in Terminos(condicion) |->
                          Resultado(condicion, i, hechos)]
    IN  IF \E i \in Terminos(condicion) : resultados[i] = "TypeError"
        THEN "TypeError"
        ELSE IF operador = Txt("AND")
        THEN PyBool(/\ Terminos(condicion) # {}
                    /\ \A i \in Terminos(condicion) : resultados[i] = "True")
        ELSE IF operador = Txt("OR")
        THEN PyBool(/\ Terminos(condicion) # {}
                    /\ \E i \in Terminos(condicion) : resultados[i] = "True")
        ELSE "False"

\* "True" or "False" as returned, "TypeError" when a comparison raised.
evaluar_condicion(condicion, hechos) ==
    LET operador == Operador(condicion)
        resultados == [i \in Terminos(condicion) |->
                          Resultado(condicion, i, hechos)]
    IN  IF \E i \in Terminos(condicion) : resultados[i] = "TypeError"
        THEN "TypeError"
        ELSE IF operador = Txt("AND")
        THEN PyBool(/\ Terminos(condicion) # {}
                    /\ \A i \in Terminos(condicion) : resultados[i] = "True")
        ELSE IF operador = Txt("OR")
        THEN PyBool(/\ Terminos(condicion) # {}
                    /\ \E i \in Terminos(condicion) : resultados[i] = "True")
        ELSE "False"

\* ------------------------------------------------------------------------
\* Rule sets
\* ------------------------------------------------------------------------
\* A rule set is the sequence of its groups, a group the sequence of its
\* rules: [grupo |-> name, reglas |-> << [id |-> ..., regla |-> ...], ... >>].
Regla(nombre, condiciones, conclusion, prioridad) ==
    [nombre |-> nombre, condiciones |-> condiciones,
     conclusion |-> conclusion, prioridad |-> prioridad]

EcologistaComprometido == "El ecologista comprometido"

reglas_fallback ==
    << [grupo |-> "reglas_basicas",
        reglas |-> <<
          [id |-> "R_EMISION_ALTA",
           regla |-> Regla("Alerta de Emision Alta",
              << << <<"emision", "per", "capita", "mayor", "que">>,
                    Num(5000) >> >>,
              [alerta |-> Txt("Tu huella es significativamente alta.")],
              10)],
          [id |-> "R_MUNICIPIO_INDUSTRIAL",
           regla |-> Regla("Alerta de Contexto Municipal",
              << << <<"municipio", "tipo">>, Txt("Industrial Pesado") >>,
                 << <<"municipio", "nivel", "contaminacion">>,
                    Txt("Muy Alto") >> >>,
              [contexto |-> Txt("Tu municipio tiene altos factores de riesgo.")],
              8)],
          [id |-> "R_BAJO_IMPACTO",
           regla |-> Regla("Refuerzo Positivo",
              << << <<"emision", "per", "capita", "menor", "que">>,
                    Num(3000) >>,
                 << <<"usuario", "perfil">>, Txt(EcologistaComprometido) >> >>,
              [refuerzo_positivo |-> Txt("Felicidades!")],
              5)] >>] >>

\* The rule set that inicializar_reglas_default writes to the store.
CondActividad(categoria, sub_categoria, cantidad) ==
    << << <<"categoria">>, Txt(categoria) >>,
       << <<"sub", "categoria">>, Txt(sub_categoria) >>,
       << <<"cantidad", "mayor", "que">>, Num(cantidad) >>,
       << <<"operador">>, Txt("AND") >> >>

reglas_default ==
    << [grupo |-> "reglas_transporte",
        reglas |-> <<
          [id |-> "R1",
           regla |-> Regla("Transporte Alto Gasolina",
              CondActividad("transporte", "auto_gasolina", 30),
              [sugerencia |-> Txt("Reducir uso de vehiculo particular"),
               alternativas |-> Txt("transporte_publico,bicicleta,carpooling"),
               ahorro_estimado_pct |-> Num(40)],
              10)],
          [id |-> "R2",
           regla |-> Regla("Uso Bicicleta Positivo",
              CondActividad("transporte", "bicicleta", 5),
              [refuerzo_positivo |->
                   Txt("Excelente uso de transporte sostenible"),
               medalla |-> Txt("eco_ciclista"),
               ahorro_real_kg |-> Num(150)],
              8)] >>],
       [grupo |-> "reglas_energia",
        reglas |-> <<
          [id |-> "R3",
           regla |-> Regla("Consumo Electrico Alto",
              CondActividad("energia", "electricidad_red", 300),
              [sugerencia |-> Txt("Optimizar consumo electrico"),
               acciones |-> Txt("cambiar_focos_led,desconectar_standby"),
               ahorro_estimado_pct |-> Num(25)],
              9)],
          [id |-> "R4",
           regla |-> Regla("Uso Energia Renovable",
              CondActividad("energia", "electricidad_renovable", 0),
              [refuerzo_positivo |-> Txt("Compromiso con energias limpias"),
               medalla |-> Txt("energia_verde"),
               ahorro_real_kg |-> Num(200)],
              7)] >>],
       [grupo |-> "reglas_municipio",
        reglas |-> <<
          [id |-> "R5",
           regla |-> Regla("Municipio Alta Contaminacion",
              << << <<"nivel", "contaminacion">>, Txt("Muy Alto") >>,
                 << <<"operador">>, Txt("OR") >>,
                 << <<"nivel", "contaminacion", "alt">>, Txt("Alto") >> >>,
              [alerta |-> Txt("Tu municipio tiene alta contaminacion"),
               acciones_comunitarias |-> Txt("participar_reforestacion"),
               impacto_multiplicador |-> Num(3)],
              10)],
          [id |-> "R6",
           regla |-> Regla("Municipio Industrial",
              << << <<"tipo", "municipio">>, Txt("Industrial Pesado") >>,
                 << <<"operador">>, Txt("AND") >>,
                 << <<"emision", "industria", "mayor", "que">>,
                    Num(50000) >> >>,
              [contexto |-> Txt("Zona con alta actividad industrial"),
               sugerencia |->
                   Txt("Acciones individuales son mas criticas aqui"),
               enfoque |-> Txt("compensacion_comunitaria")],
              9)] >>],
       [grupo |-> "reglas_perfil",
        reglas |-> <<
          [id |-> "R7",
           regla |-> Regla("Perfil Principiante",
              << << <<"perfil">>, Txt("El principiante") >>,
                 << <<"operador">>, Txt("AND") >> >>,
              [estilo_sugerencias |-> Txt("simple_visual"),
               complejidad |-> Txt("baja"),
               frecuencia_recordatorios |-> Txt("alta")],
              5)],
          [id |-> "R8",
           regla |-> Regla("Perfil Ecologista Comprometido",
              << << <<"perfil">>, Txt(EcologistaComprometido) >>,
                 << <<"operador">>, Txt("AND") >> >>,
              [estilo_sugerencias |-> Txt("detallado_tecnico"),
               complejidad |-> Txt("alta"),
               incluir_datos_avanzados |-> Txt("True")],
              5)] >>],
       [grupo |-> "reglas_combinadas",
        reglas |-> <<
          [id |-> "R9",
           regla |-> Regla("Alta Emision + Municipio Industrial",
              << << <<"emision", "per", "capita", "mayor", "que">>,
                    Num(5000) >>,
                 << <<"operador">>, Txt("AND") >>,
                 << <<"tipo", "municipio">>, Txt("Industrial Pesado") >> >>,
              [alerta_critica |-> Txt("Huella muy alta en zona critica"),
               prioridad_accion |-> Txt("urgente"),
               sugerencias_personalizadas |->
                   Txt("cambio_radical_transporte")],
              10)],
          [id |-> "R10",
           regla |-> Regla("Bajo Impacto + Rural",
              << << <<"emision", "per", "capita", "menor", "que">>,
                    Num(2000) >>,
                 << <<"operador">>, Txt("AND") >>,
                 << <<"tipo", "municipio">>, Txt("Rural") >> >>,
              [reconocimiento |-> Txt("Huella de carbono ejemplar"),
               medalla |-> Txt("guardian_rural"),
               compartir_buenas_practicas |-> Txt("True")],
              6)] >>] >>

\* A rule set such as an administrator of the store can write: a chain (RA
\* produces the sugerencia that RB requires, RB the alerta that RC accepts),
\* equal priorities, an id used in two groups, a rule with no term, an
\* unknown operator and a comparison between texts.
reglas_encadenadas ==
    << [grupo |-> "cadena",
        reglas |-> <<
          [id |-> "RA",
           regla |-> Regla("Productor",
              << << <<"perfil">>, Txt(EcologistaComprometido) >> >>,
              [sugerencia |-> Txt("s1")],
              3)],
          [id |-> "RB",
           regla |-> Regla("Consumidor",
              << << <<"inferencia", "sugerencia">>, Txt("s1") >> >>,
              [alerta |-> Txt("a1"), contexto |-> Txt("c1")],
              9)],
          [id |-> "RC",
           regla |-> Regla("Alternativa",
              << << <<"alerta">>, Txt("a1") >>,
                 << <<"operador">>, Txt("OR") >>,
                 << <<"emision", "per", "capita", "mayor", "que">>,
                    Num(5000) >> >>,
              [contexto |-> Txt("c2")],
              2)] >>],
       [grupo |-> "otros",
        reglas |-> <<
          [id |-> "RA",
           regla |-> Regla("Homonima",
              << << <<"emision", "per", "capita", "menor", "que">>,
                    Num(3000) >> >>,
              [refuerzo_positivo |-> Txt("r1")],
              3)],
          [id |-> "RD",
           regla |-> Regla("Sin terminos",
              << << <<"operador">>, Txt("AND") >> >>,
              [alerta |-> Txt("a2")],
              20)],
          [id |-> "RE",
           regla |-> Regla("Operador desconocido",
              << << <<"perfil">>, Txt(EcologistaComprometido) >>,
                 << <<"operador">>, Txt("XOR") >> >>,
              [alerta |-> Txt("a3")],
              20)],
          [id |-> "RF",
           regla |-> Regla("Nivel sobre Alto",
              << << <<"nivel", "contaminacion", "mayor", "que">>,
                    Txt("Alto") >> >>,
              [sugerencia |-> Txt("s1"), medalla |-> Txt("m1")],
              3)] >>] >>

\* Rule sets that the store can hold and cargar_reglas accepts (non-empty
\* dicts) although they are malformed.  A rule is the record of the keys it
\* has.  In the first, one rule is well formed and the others lack
\* prioridad, nombre and conclusion.
ReglaBienFormada ==
    [id |-> "M_BIEN",
     regla |-> Regla("Bien formada",
        << << <<"perfil">>, Txt(EcologistaComprometido) >> >>,
        [contexto |-> Txt("c1")],
        9)]

reglas_incompletas ==
    << [grupo |-> "incompletas",
        reglas |-> <<
          ReglaBienFormada,
          [id |-> "M_SIN_PRIORIDAD",
           regla |-> [nombre |-> "Sin prioridad",
                      condiciones |->
                          << << <<"perfil">>, Txt("El principiante") >> >>,
                      conclusion |-> [alerta |-> Txt("a1")]]],
          [id |-> "M_SIN_NOMBRE",
           regla |-> [condiciones |->
                          << << <<"emision", "per", "capita", "menor", "que">>,
                                Num(3000) >> >>,
                      conclusion |-> [sugerencia |-> Txt("s1")],
                      prioridad |-> 5]],
          [id |-> "M_SIN_CONCLUSION",
           regla |-> [nombre |-> "Sin conclusion",
                      condiciones |->
                          << << <<"nivel", "contaminacion">>,
                                Txt("Muy Alto") >> >>,
                      prioridad |-> 7]] >>] >>

\* A rule without condiciones.
reglas_sin_condiciones ==
    << [grupo |-> "sin_condiciones",
        reglas |-> <<
          [id |-> "M_SIN_CONDICIONES",
           regla |-> [nombre |-> "Sin condiciones",
                      conclusion |-> [alerta |-> Txt("a1")],
                      prioridad |-> 5]] >>] >>

\* A group that is a list, after a group that is a mapping.
reglas_grupo_lista ==
    << [grupo |-> "buenas", reglas |-> << ReglaBienFormada >>],
       [grupo |-> "lista", lista |-> << "Sin nombre de regla" >>] >>

\* A group that is a mapping of rules has the field reglas; a group that the
\* store returned as a list has the field lista instead.
EsMapping(grupo) == "reglas" \in DOMAIN grupo

\* The rules of a rule set in the order of the two nested loops over
\* self.reglas.items() and grupo_reglas.items(); a group that is not a
\* mapping has no items.
RECURSIVE EnOrden(_)
EnOrden(rs) ==
    IF Len(rs) = 0 THEN << >>
    ELSE IF ~EsMapping(Head(rs)) THEN EnOrden(Tail(rs))
    ELSE [i \in 1..Len(Head(rs).reglas) |->
             [id |-> Head(rs).reglas[i].id,
              grupo |-> Head(rs).grupo,
              regla |-> Head(rs).reglas[i].regla]]
         \o EnOrden(Tail(rs))

\* ------------------------------------------------------------------------
\* The rule provider (FirebaseConnection) and cargar_reglas
\* ------------------------------------------------------------------------
\* What reference.get() does: it raises, or returns a value of some class.
\* len is Python's len() of the value, grupos its groups when it is a dict.
Respuesta(clase, len, grupos) ==
    [clase |-> clase, len |-> len, grupos |-> grupos]

RespuestaNone == Respuesta("NoneType", 0, << >>)

RespuestaDict(grupos) == Respuesta("dict", Len(grupos), grupos)

RespuestasGet ==
    { Respuesta("excepcion", 0, << >>),
      RespuestaNone,
      RespuestaDict(<< >>),
      Respuesta("list", 2, << >>),
      RespuestaDict(reglas_default),
      RespuestaDict(reglas_encadenadas) }

\* The malformed rule sets, as get() returns them.
RespuestasMalformadas ==
    { RespuestaDict(reglas_incompletas),
      RespuestaDict(reglas_sin_condiciones),
      RespuestaDict(reglas_grupo_lista) }

\* FirebaseConnection.obtener_reglas: None without a connection and when
\* get() raises, else what get() returned.
obtener_reglas(ref, get) ==
    IF ref = "None" THEN RespuestaNone
    ELSE IF get.clase = "excepcion" THEN RespuestaNone
    ELSE get

\* not x, for the values a provider returns
Falsy(x) == x.clase = "NoneType" \/ x.len = 0

\* cargar_reglas as it would be without the isinstance test.
cargar_reglas_sin_isinstance(obtenido) ==
    LET reglas_reales ==
            IF obtenido.clase = "excepcion" THEN RespuestaNone ELSE obtenido
    IN  IF Falsy(reglas_reales) \/ reglas_reales.len = 0
        THEN reglas_fallback
        ELSE reglas_reales.grupos

\* MotorInferencia.cargar_reglas: the value assigned to self.reglas.
cargar_reglas(obtenido) ==
    LET reglas_reales ==
            IF obtenido.clase = "excepcion" THEN RespuestaNone ELSE obtenido
    IN  IF Falsy(reglas_reales) \/ reglas_reales.clase # "dict"
           \/ reglas_reales.len = 0
        THEN reglas_fallback
        ELSE reglas_reales.grupos

\* ------------------------------------------------------------------------
\* Seeding
\* ------------------------------------------------------------------------
\* dict.get(key, default)
Get(d, key, default) == IF key \in DOMAIN d THEN d[key] ELSE default

\* The loop over the activities as it would be if it appended the three
\* facts of every activity without the search for an equal triple.
RECURSIVE AgregarActividadesSinDedup(_, _)
AgregarActividadesSinDedup(hs, actividades) ==
    IF Len(actividades) = 0 THEN hs
    ELSE LET actividad == Head(actividades) IN
         AgregarActividadesSinDedup(
             hs \o << Hecho(<<"actividad">>, <<"categoria">>,
                            Get(actividad, "categoria", None)),
                      Hecho(<<"actividad">>, <<"sub", "categoria">>,
                            Get(actividad, "sub_categoria", None)),
                      Hecho(<<"actividad">>, <<"cantidad">>,
                            Get(actividad, "cantidad", None)) >>,
             Tail(actividades))

\* The loop over the activities as it would be if it went through the list
\* from its last activity to its first.
RECURSIVE AgregarActividadesAlReves(_, _)
AgregarActividadesAlReves(hs, actividades) ==
    IF Len(actividades) = 0 THEN hs
    ELSE LET actividad == actividades[Len(actividades)]
             h1 == agregar_hecho(hs,
                     Hecho(<<"actividad">>, <<"categoria">>,
                           Get(actividad, "categoria", None)))
             h2 == agregar_hecho(h1,
                     Hecho(<<"actividad">>, <<"sub", "categoria">>,
                           Get(actividad, "sub_categoria", None)))
             h3 == agregar_hecho(h2,
                     Hecho(<<"actividad">>, <<"cantidad">>,
                           Get(actividad, "cantidad", None)))
         IN  AgregarActividadesAlReves(
                 h3, SubSeq(actividades, 1, Len(actividades) - 1))

RECURSIVE AgregarActividades(_, _)
AgregarActividades(hs, actividades) ==
    IF Len(actividades) = 0 THEN hs
    ELSE LET actividad == Head(actividades)
             h1 == agregar_hecho(hs,
                     Hecho(<<"actividad">>, <<"categoria">>,
                           Get(actividad, "categoria", None)))
             h2 == agregar_hecho(h1,
                     Hecho(<<"actividad">>, <<"sub", "categoria">>,
                           Get(actividad, "sub_categoria", None)))
             h3 == agregar_hecho(h2,
                     Hecho(<<"actividad">>, <<"cantidad">>,
                           Get(actividad, "cantidad", None)))
         IN  AgregarActividades(h3, Tail(actividades))

\* MotorInferencia.inicializar_hechos_desde_usuario: the memory afterwards.
inicializar_hechos_desde_usuario(hs, datos_usuario) ==
    LET m1 == IF "municipio" \in DOMAIN datos_usuario
              THEN agregar_hecho(
                     agregar_hecho(
                       agregar_hecho(
                         agregar_hecho(hs,
                           Hecho(<<"municipio">>, <<"nombre">>,
                                 datos_usuario["municipio"])),
                         Hecho(<<"municipio">>, <<"tipo">>,
                               Get(datos_usuario, "tipo_municipio",
                                   Txt("Desconocido")))),
                       Hecho(<<"municipio">>, <<"nivel", "contaminacion">>,
                             Get(datos_usuario, "nivel_contaminacion",
                                 Txt("Medio")))),
                     Hecho(<<"municipio">>, <<"emision", "industria">>,
                           Get(datos_usuario, "emision_industria_ton",
                               Num(0))))
              ELSE hs
        m2 == IF "perfil" \in DOMAIN datos_usuario
              THEN agregar_hecho(m1,
                     Hecho(<<"usuario">>, <<"perfil">>,
                           datos_usuario["perfil"]))
              ELSE m1
        m3 == IF "emision_per_capita_kg" \in DOMAIN datos_usuario
              THEN agregar_hecho(m2,
                     Hecho(<<"emision">>, <<"per", "capita">>,
                           datos_usuario["emision_per_capita_kg"]))
              ELSE m2
    IN  IF "actividades" \in DOMAIN datos_usuario
        THEN AgregarActividades(m3, datos_usuario["actividades"])
        ELSE m3

\* ------------------------------------------------------------------------
\* The MATCH, RESOLVE and EXECUTE phases
\* ------------------------------------------------------------------------
\* The traversal as it would be without the test on reglas_disparadas.
NoDisparadasSinFiltro(rs, disparadas) == EnOrden(rs)

\* The rules that the traversal does not skip.
NoDisparadas(rs, disparadas) ==
    SelectSeq(EnOrden(rs), LAMBDA r : r.id \notin disparadas)

\* What the body of the inner loop does with a rule that is not skipped:
\* regla['condiciones'] raises KeyError when the rule has no such key, else
\* the condition is evaluated.
EvaluarRegla(r, hs) ==
    IF "condiciones" \notin DOMAIN r.regla THEN "KeyError"
    ELSE evaluar_condicion(r.regla.condiciones, hs)

\* _buscar_reglas_aplicables as it would be if the traversal ended with the
\* first group.
buscar_reglas_aplicables_primer_grupo(rs, disparadas, hs) ==
    IF Len(rs) = 0 THEN [excepcion |-> "", aplicables |-> << >>]
    ELSE IF ~EsMapping(Head(rs))
    THEN [excepcion |-> "AttributeError", aplicables |-> << >>]
    ELSE LET candidatas == NoDisparadas(<< Head(rs) >>, disparadas)
             fallan == {i \in 1..Len(candidatas) :
                           EvaluarRegla(candidatas[i], hs)
                               \notin {"True", "False"}}
         IN  IF fallan # {}
             THEN [excepcion |->
                       EvaluarRegla(
                           candidatas[CHOOSE i \in fallan :
                                          \A j \in fallan : i <= j], hs),
                   aplicables |-> << >>]
             ELSE [excepcion |-> "",
                   aplicables |->
                       SelectSeq(candidatas,
                           LAMBDA r : EvaluarRegla(r, hs) = "True")]

\* _buscar_reglas_aplicables as it would be if a fired id counted for the
\* first group that has a rule of that id only.
RECURSIVE buscar_reglas_aplicables_por_grupo(_, _, _)
buscar_reglas_aplicables_por_grupo(rs, disparadas, hs) ==
    IF Len(rs) = 0 THEN [excepcion |-> "", aplicables |-> << >>]
    ELSE IF ~EsMapping(Head(rs))
    THEN [excepcion |-> "AttributeError", aplicables |-> << >>]
    ELSE LET candidatas == NoDisparadas(<< Head(rs) >>, disparadas)
             del_grupo == {Head(rs).reglas[i].id :
                              i \in 1..Len(Head(rs).reglas)}
             fallan == {i \in 1..Len(candidatas) :
                           EvaluarRegla(candidatas[i], hs)
                               \notin {"True", "False"}}
         IN  IF fallan # {}
             THEN [excepcion |->
                       EvaluarRegla(
                           candidatas[CHOOSE i \in fallan :
                                          \A j \in fallan : i <= j], hs),
                   aplicables |-> << >>]
             ELSE LET resto ==
                          buscar_reglas_aplicables_por_grupo(
                              Tail(rs), disparadas \ del_grupo, hs)
                  IN  IF resto.excepcion # "" THEN resto
                      ELSE [excepcion |-> "",
                            aplicables |->
                                SelectSeq(candidatas,
                                    LAMBDA r : EvaluarRegla(r, hs) = "True")
                                \o resto.aplicables]

\* MotorInferencia._buscar_reglas_aplicables: the list of applicable rules,
\* or the first exception of the traversal: grupo_reglas.items() raises
\* AttributeError on a group that is not a mapping, and the body of the
\* inner loop raises on a rule that is not skipped.
RECURSIVE buscar_reglas_aplicables(_, _, _)
buscar_reglas_aplicables(rs, disparadas, hs) ==
    IF Len(rs) = 0 THEN [excepcion |-> "", aplicables |-> << >>]
    ELSE IF ~EsMapping(Head(rs))
    THEN [excepcion |-> "AttributeError", aplicables |-> << >>]
    ELSE LET candidatas == NoDisparadas(<< Head(rs) >>, disparadas)
             fallan == {i \in 1..Len(candidatas) :
                           EvaluarRegla(candidatas[i], hs)
                               \notin {"True", "False"}}
         IN  IF fallan # {}
             THEN [excepcion |->
                       EvaluarRegla(
                           candidatas[CHOOSE i \in fallan :
                                          \A j \in fallan : i <= j], hs),
                   aplicables |-> << >>]
             ELSE LET resto ==
                          buscar_reglas_aplicables(Tail(rs), disparadas, hs)
                  IN  IF resto.excepcion # "" THEN resto
                      ELSE [excepcion |-> "",
                            aplicables |->
                                SelectSeq(candidatas,
                                    LAMBDA r : EvaluarRegla(r, hs) = "True")
                                \o resto.aplicables]

\* max() as it would be if a later element of equal key replaced the best.
RECURSIVE MaxDesdeUltimo(_, _)
MaxDesdeUltimo(mejor, resto) ==
    IF Len(resto) = 0 THEN mejor
    ELSE IF Head(resto).regla.prioridad >= mejor.regla.prioridad
         THEN MaxDesdeUltimo(Head(resto), Tail(resto))
         ELSE MaxDesdeUltimo(mejor, Tail(resto))

\* max(reglas_aplicables, key=prioridad): the first element with the greatest
\* key; a later element replaces the best so far only when strictly greater.
RECURSIVE MaxDesde(_, _)
MaxDesde(mejor, resto) ==
    IF Len(resto) = 0 THEN mejor
    ELSE IF Head(resto).regla.prioridad > mejor.regla.prioridad
         THEN MaxDesde(Head(resto), Tail(resto))
         ELSE MaxDesde(mejor, Tail(resto))

MaxPrioridad(aplicables) == MaxDesde(Head(aplicables), Tail(aplicables))

\* The KeyError of the RESOLVE and EXECUTE phases, "" when there is none:
\* max() reads r['regla']['prioridad'] of every applicable rule, the print
\* that follows reads the name of the selected rule and _ejecutar_regla
\* reads its conclusion before it appends to the log.
ErrorDeSeleccion(aplicables) ==
    IF \E i \in 1..Len(aplicables) :
           "prioridad" \notin DOMAIN aplicables[i].regla
    THEN "KeyError"
    ELSE IF \/ "nombre" \notin DOMAIN MaxPrioridad(aplicables).regla
            \/ "conclusion" \notin DOMAIN MaxPrioridad(aplicables).regla
    THEN "KeyError"
    ELSE ""

\* MotorInferencia._ejecutar_regla: the record appended to the log ...
Registro(regla) ==
    [regla |-> regla.nombre, conclusion |-> regla.conclusion,
     prioridad |-> regla.prioridad]

\* _ejecutar_regla as it would be if a contexto gave a derived fact too.
HechosDerivadosConContexto(hs, conclusion) ==
    LET m1 == IF "sugerencia" \in DOMAIN conclusion
              THEN agregar_hecho(hs,
                     Hecho(<<"inferencia">>, <<"sugerencia">>,
                           conclusion["sugerencia"]))
              ELSE hs
        m2 == IF "alerta" \in DOMAIN conclusion
              THEN agregar_hecho(m1,
                     Hecho(<<"inferencia">>, <<"alerta">>,
                           conclusion["alerta"]))
              ELSE m1
    IN  IF "contexto" \in DOMAIN conclusion
        THEN agregar_hecho(m2,
               Hecho(<<"inferencia">>, <<"contexto">>, conclusion["contexto"]))
        ELSE m2

\* ... and the memory after the derived facts are added.
HechosDerivados(hs, conclusion) ==
    LET m1 == IF "sugerencia" \in DOMAIN conclusion
              THEN agregar_hecho(hs,
                     Hecho(<<"inferencia">>, <<"sugerencia">>,
                           conclusion["sugerencia"]))
              ELSE hs
    IN  IF "alerta" \in DOMAIN conclusion
        THEN agregar_hecho(m1,
               Hecho(<<"inferencia">>, <<"alerta">>, conclusion["alerta"]))
        ELSE m1

\* MotorInferencia.obtener_sugerencias_formateadas: one labelled string per
\* key present, in the order sugerencia, alerta, refuerzo_positivo, contexto.
\* The string f"<emoji> {valor}" is the pair of its label and the value.
EtiquetasEnOrden ==
    << [clave |-> "sugerencia", emoji |-> "bombilla"],
       [clave |-> "alerta", emoji |-> "advertencia"],
       [clave |-> "refuerzo_positivo", emoji |-> "estrella"],
       [clave |-> "contexto", emoji |-> "chincheta"] >>

\* The strings of a record as they would be if the four tests were chained
\* with elif: only the first key present gives a string.
FormatearRegistroElif(registro) ==
    LET presentes == SelectSeq(EtiquetasEnOrden,
                        LAMBDA e : e.clave \in DOMAIN registro.conclusion)
    IN  IF Len(presentes) = 0 THEN << >>
        ELSE << [emoji |-> presentes[1].emoji,
                 texto |-> registro.conclusion[presentes[1].clave]] >>

FormatearRegistro(registro) ==
    LET presentes == SelectSeq(EtiquetasEnOrden,
                        LAMBDA e : e.clave \in DOMAIN registro.conclusion)
    IN  [i \in 1..Len(presentes) |->
            [emoji |-> presentes[i].emoji,
             texto |-> registro.conclusion[presentes[i].clave]]]

RECURSIVE obtener_sugerencias_formateadas(_)
obtener_sugerencias_formateadas(cs) ==
    IF Len(cs) = 0 THEN << >>
    ELSE FormatearRegistro(Head(cs))
         \o obtener_sugerencias_formateadas(Tail(cs))

\* ------------------------------------------------------------------------
\* Inputs and bounds
\* ------------------------------------------------------------------------
\* The greatest max_iteraciones a caller passes.
MaxTope == 3

\* Calls of cargar_reglas, inicializar_hechos_desde_usuario, agregar_hecho
\* and ejecutar_inferencia between two calls of reiniciar.
MaxLlamadas == 3

Topes == -1..MaxTope

ActividadesEjemplo ==
    << [categoria |-> Txt("transporte"), sub_categoria |-> Txt("auto_gasolina"),
        cantidad |-> Num(50)],
       [categoria |-> Txt("energia"), sub_categoria |-> Txt("electricidad_red"),
        cantidad |-> Num(350)] >>

\* The record of ejemplo_inferencia.
DatosEjemplo ==
    [municipio |-> Txt("Tula de Allende"),
     tipo_municipio |-> Txt("Industrial Pesado"),
     nivel_contaminacion |-> Txt("Muy Alto"),
     emision_industria_ton |-> Num(180000),
     perfil |-> Txt(EcologistaComprometido),
     emision_per_capita_kg |-> Num(8500),
     actividades |-> ActividadesEjemplo]

DatosIndustrialSinMunicipio ==
    [tipo_municipio |-> Txt("Industrial Pesado"),
     nivel_contaminacion |-> Txt("Muy Alto"),
     emision_per_capita_kg |-> Num(8500),
     perfil |-> Txt(EcologistaComprometido)]

DatosBajoImpacto ==
    [emision_per_capita_kg |-> Num(2000),
     perfil |-> Txt(EcologistaComprometido)]

DatosSoloMunicipio == [municipio |-> Txt("Actopan")]

DatosRural ==
    [municipio |-> Txt("Actopan"),
     tipo_municipio |-> Txt("Rural"),
     nivel_contaminacion |-> Txt("Alto"),
     perfil |-> Txt("El principiante"),
     emision_per_capita_kg |-> Num(1500),
     actividades |->
         << [categoria |-> Txt("transporte"),
             sub_categoria |-> Txt("bicicleta")] >>]

\* A per-capita emission that arrives as text.
DatosTexto ==
    [perfil |-> Txt(EcologistaComprometido),
     emision_per_capita_kg |-> Txt("8500")]

Semillas ==
    { DatosEjemplo, DatosIndustrialSinMunicipio, DatosBajoImpacto,
      DatosSoloMunicipio, DatosRural, DatosTexto }

\* Facts that a caller adds to the memory directly.
HechosDirectos ==
    { HechoConf(<<"usuario">>, <<"perfil">>, Txt(EcologistaComprometido), 5),
      HechoConf(<<"emision">>, <<"per", "capita">>, Num(2000), 8),
      HechoConf(<<"inferencia">>, <<"alerta">>, Txt("a1"), 7) }

\* ------------------------------------------------------------------------
\* The engine as a state machine
\* ------------------------------------------------------------------------
VARIABLES
    db_ref,             \* FirebaseConnection.db_ref: "None" or "ref"
    respuesta_get,      \* what the store answered to the last load of rules
    reglas,             \* MotorInferencia.reglas
    hechos,             \* MotorInferencia.memoria_trabajo.hechos
    conclusiones,       \* MotorInferencia.conclusiones
    llamada,            \* the call in progress or last completed, its argument
    pc,                 \* position in ejecutar_inferencia, "idle" outside
    iteracion,          \* local of ejecutar_inferencia
    reglas_disparadas,  \* local of ejecutar_inferencia
    fases,              \* per iteration of this call: the MATCH result and
                        \* the rule that RESOLVE selected
    log_inicial,        \* conclusiones when this call started
    datos_sembrados,    \* the records seeded since the last reiniciar
    retorno,            \* the list returned by the last call
    excepcion,          \* the exception the last call raised, "" if none
    persistencia,       \* guardar_inferencia in the last call
    cargas, siembras, agregados, corridas,  \* calls since the last reiniciar
    sesiones            \* the calls of generar_sugerencias in progress on
                        \* this engine: step, arguments and result

vars ==
    << db_ref, respuesta_get, reglas, hechos, conclusiones, llamada, pc,
       iteracion, reglas_disparadas, fases, log_inicial, datos_sembrados,
       retorno, excepcion, persistencia, cargas, siembras, agregados,
       corridas, sesiones >>

\* The calls made since the last reiniciar.
LlamadasHechas == cargas + siembras + agregados + corridas

Llamada(op, arg) == [op |-> op, arg |-> arg]

\* The locals of ejecutar_inferencia are kept until the next call of the
\* engine, which finds them gone.
SinCorrida ==
    /\ iteracion' = 0
    /\ reglas_disparadas' = {}
    /\ fases' = << >>
    /\ log_inicial' = << >>

\* MotorInferencia.__init__: the connection is opened or not, the memory and
\* the log are empty and cargar_reglas has run.
Init ==
    /\ db_ref \in {"None", "ref"}
    /\ respuesta_get \in RespuestasGet
    /\ db_ref = "None" => respuesta_get = RespuestaNone
    /\ reglas = cargar_reglas(obtener_reglas(db_ref, respuesta_get))
    /\ hechos = << >>
    /\ conclusiones = << >>
    /\ llamada = Llamada("__init__", 0)
    /\ pc = "idle"
    /\ iteracion = 0
    /\ reglas_disparadas = {}
    /\ fases = << >>
    /\ log_inicial = << >>
    /\ datos_sembrados = << >>
    /\ retorno = << >>
    /\ excepcion = ""
    /\ persistencia = "sin_llamar"
    /\ cargas = 0
    /\ siembras = 0
    /\ agregados = 0
    /\ corridas = 0
    /\ sesiones = << >>

CargarReglas ==
    /\ pc = "idle"
    /\ LlamadasHechas < MaxLlamadas
    /\ cargas' = cargas + 1
    /\ \E get \in RespuestasGet :
          /\ db_ref = "None" => get = RespuestaNone
          /\ respuesta_get' = get
          /\ reglas' = cargar_reglas(obtener_reglas(db_ref, get))
    /\ llamada' = Llamada("cargar_reglas", 0)
    /\ retorno' = << >>
    /\ excepcion' = ""
    /\ persistencia' = "sin_llamar"
    /\ SinCorrida
    /\ UNCHANGED sesiones
    /\ UNCHANGED << db_ref, hechos, conclusiones, pc, datos_sembrados,
                    siembras, agregados, corridas >>

AgregarHecho ==
    /\ pc = "idle"
    /\ LlamadasHechas < MaxLlamadas
    /\ \E hecho \in HechosDirectos :
          /\ hechos' = agregar_hecho(hechos, hecho)
          /\ llamada' = Llamada("agregar_hecho", hecho)
    /\ agregados' = agregados + 1
    /\ retorno' = << >>
    /\ excepcion' = ""
    /\ persistencia' = "sin_llamar"
    /\ SinCorrida
    /\ UNCHANGED sesiones
    /\ UNCHANGED << cargas, db_ref, respuesta_get, reglas, conclusiones, pc,
                    datos_sembrados, siembras, corridas >>

InicializarHechos ==
    /\ pc = "idle"
    /\ LlamadasHechas < MaxLlamadas
    /\ \E datos_usuario \in Semillas :
          /\ hechos' = inicializar_hechos_desde_usuario(hechos, datos_usuario)
          /\ llamada' = Llamada("inicializar_hechos_desde_usuario",
                                datos_usuario)
          /\ datos_sembrados' = Append(datos_sembrados, datos_usuario)
    /\ siembras' = siembras + 1
    /\ retorno' = << >>
    /\ excepcion' = ""
    /\ persistencia' = "sin_llamar"
    /\ SinCorrida
    /\ UNCHANGED sesiones
    /\ UNCHANGED << cargas, db_ref, respuesta_get, reglas, conclusiones, pc,
                    agregados, corridas >>

\* The set of fired ids as it would be if a call started from the ids of the
\* rules that the log shows to have fired in earlier calls.
DisparadasDelLog(rs, cs) ==
    {EnOrden(rs)[i].id : i \in
        {j \in 1..Len(EnOrden(rs)) :
            \E n \in 1..Len(cs) : cs[n] = Registro(EnOrden(rs)[j].regla)}}

\* reglas_disparadas = set(): every call starts with no fired id, whatever
\* the rule set and the log are.
DisparadasAlIniciar(rs, cs) == {}

\* ejecutar_inferencia up to the first test of the while condition.
IniciarInferencia ==
    /\ pc = "idle"
    /\ LlamadasHechas < MaxLlamadas
    /\ \E max_iteraciones \in Topes :
          llamada' = Llamada("ejecutar_inferencia", max_iteraciones)
    /\ corridas' = corridas + 1
    /\ pc' = "while"
    /\ iteracion' = 0
    /\ reglas_disparadas' = DisparadasAlIniciar(reglas, conclusiones)
    /\ fases' = << >>
    /\ log_inicial' = conclusiones
    /\ retorno' = << >>
    /\ excepcion' = ""
    /\ persistencia' = "sin_llamar"
    /\ UNCHANGED sesiones
    /\ UNCHANGED << cargas, db_ref, respuesta_get, reglas, hechos, conclusiones,
                    datos_sembrados, siembras, agregados >>

\* The while condition as it would be with <= for <.
CondicionWhileInclusiva(i, max_iteraciones) == i <= max_iteraciones

\* while iteracion < max_iteraciones
CondicionWhile(i, max_iteraciones) == i < max_iteraciones

Fase(aplicables, seleccionada) ==
    [aplicables |-> aplicables, seleccionada |-> seleccionada]

\* One pass of the while loop: MATCH, then break, or RESOLVE and EXECUTE.
Iterar ==
    /\ pc = "while"
    /\ CondicionWhile(iteracion, llamada.arg)
    /\ iteracion' = iteracion + 1
    /\ LET match == buscar_reglas_aplicables(reglas, reglas_disparadas, hechos)
       IN  IF match.excepcion # ""
           THEN /\ pc' = "raise"
                /\ excepcion' = match.excepcion
                /\ UNCHANGED << hechos, conclusiones, reglas_disparadas,
                                fases >>
           ELSE IF Len(match.aplicables) = 0
           THEN /\ pc' = "break"
                /\ fases' = Append(fases, Fase(<< >>, << >>))
                /\ UNCHANGED << hechos, conclusiones, reglas_disparadas,
                                excepcion >>
           ELSE IF ErrorDeSeleccion(match.aplicables) # ""
           THEN /\ pc' = "raise"
                /\ excepcion' = ErrorDeSeleccion(match.aplicables)
                /\ UNCHANGED << hechos, conclusiones, reglas_disparadas,
                                fases >>
           ELSE LET regla_seleccionada == MaxPrioridad(match.aplicables) IN
                /\ conclusiones' =
                       Append(conclusiones, Registro(regla_seleccionada.regla))
                /\ hechos' =
                       HechosDerivados(hechos,
                                       regla_seleccionada.regla.conclusion)
                /\ reglas_disparadas' =
                       reglas_disparadas \cup {regla_seleccionada.id}
                /\ fases' = Append(fases, Fase(match.aplicables,
                                               << regla_seleccionada >>))
                /\ UNCHANGED << pc, excepcion >>
    /\ UNCHANGED sesiones
    /\ UNCHANGED << cargas, db_ref, respuesta_get, reglas, llamada, log_inicial,
                    datos_sembrados, retorno, persistencia, siembras,
                    agregados, corridas >>

\* The while condition is false: the cap is reached.
AlcanzarTope ==
    /\ pc = "while"
    /\ ~ CondicionWhile(iteracion, llamada.arg)
    /\ pc' = "tope"
    /\ UNCHANGED sesiones
    /\ UNCHANGED << cargas, db_ref, respuesta_get, reglas, hechos, conclusiones,
                    llamada, iteracion, reglas_disparadas, fases, log_inicial,
                    datos_sembrados, retorno, excepcion, persistencia,
                    siembras, agregados, corridas >>

\* guardar_inferencia as it would be without its try/except: the exception
\* of push() leaves it.
guardar_inferencia_sin_try(ref, push_falla) ==
    IF ref = "None" THEN "False"
    ELSE IF push_falla THEN "Exception"
    ELSE "True"

\* FirebaseConnection.guardar_inferencia: False without a connection and when
\* push() raises, else True.
guardar_inferencia(ref, push_falla) ==
    IF ref = "None" THEN "False"
    ELSE IF push_falla THEN "False"
    ELSE "True"

\* After the loop: the log is saved when it is not empty, and returned.  The
\* call of guardar_inferencia is not guarded: what it raised would leave
\* ejecutar_inferencia, which then returns nothing.
Retornar ==
    /\ pc \in {"break", "tope"}
    /\ IF Len(conclusiones) > 0
       THEN \E push_falla \in BOOLEAN :
               LET guardado == guardar_inferencia(db_ref, push_falla) IN
               /\ persistencia' = guardado
               /\ IF guardado \in {"True", "False"}
                  THEN retorno' = conclusiones /\ excepcion' = excepcion
                  ELSE retorno' = retorno /\ excepcion' = guardado
       ELSE /\ persistencia' = "sin_llamar"
            /\ retorno' = conclusiones
            /\ excepcion' = excepcion
    /\ pc' = "idle"
    /\ UNCHANGED sesiones
    /\ UNCHANGED << cargas, db_ref, respuesta_get, reglas, hechos,
                    conclusiones, llamada, iteracion, reglas_disparadas, fases,
                    log_inicial, datos_sembrados, siembras, agregados,
                    corridas >>

\* The exception raised in an iteration leaves ejecutar_inferencia.
Propagar ==
    /\ pc = "raise"
    /\ pc' = "idle"
    /\ UNCHANGED sesiones
    /\ UNCHANGED << cargas, db_ref, respuesta_get, reglas, hechos, conclusiones,
                    llamada, iteracion, reglas_disparadas, fases, log_inicial,
                    datos_sembrados, retorno, excepcion, persistencia,
                    siembras, agregados, corridas >>

ObtenerSugerencias ==
    /\ pc = "idle"
    /\ llamada' = Llamada("obtener_sugerencias_formateadas", 0)
    /\ retorno' = obtener_sugerencias_formateadas(conclusiones)
    /\ excepcion' = ""
    /\ persistencia' = "sin_llamar"
    /\ SinCorrida
    /\ UNCHANGED sesiones
    /\ UNCHANGED << cargas, db_ref, respuesta_get, reglas, hechos,
                    conclusiones, pc, datos_sembrados, siembras, agregados,
                    corridas >>

\* reiniciar as it would be if only the memory were cleared.
ReiniciarSinLog ==
    /\ pc = "idle"
    /\ hechos' = << >>
    /\ llamada' = Llamada("reiniciar", [hechos |-> Len(hechos),
                                        conclusiones |-> Len(conclusiones)])
    /\ datos_sembrados' = << >>
    /\ retorno' = << >>
    /\ excepcion' = ""
    /\ persistencia' = "sin_llamar"
    /\ cargas' = 0
    /\ siembras' = 0
    /\ agregados' = 0
    /\ corridas' = 0
    /\ SinCorrida
    /\ UNCHANGED sesiones
    /\ UNCHANGED << db_ref, respuesta_get, reglas, pc, conclusiones >>

\* MotorInferencia.reiniciar, with MemoriaTrabajo.limpiar.  The call has no
\* argument: llamada records how many facts and records it discarded.
Reiniciar ==
    /\ pc = "idle"
    /\ hechos' = << >>
    /\ conclusiones' = << >>
    /\ llamada' = Llamada("reiniciar", [hechos |-> Len(hechos),
                                        conclusiones |-> Len(conclusiones)])
    /\ datos_sembrados' = << >>
    /\ retorno' = << >>
    /\ excepcion' = ""
    /\ persistencia' = "sin_llamar"
    /\ cargas' = 0
    /\ siembras' = 0
    /\ agregados' = 0
    /\ corridas' = 0
    /\ SinCorrida
    /\ UNCHANGED sesiones
    /\ UNCHANGED << db_ref, respuesta_get, reglas, pc >>

Next ==
    \/ CargarReglas
    \/ AgregarHecho
    \/ InicializarHechos
    \/ IniciarInferencia
    \/ Iterar
    \/ AlcanzarTope
    \/ Retornar
    \/ Propagar
    \/ ObtenerSugerencias
    \/ Reiniciar

Spec == Init /\ [][Next]_vars

\* ------------------------------------------------------------------------
\* The engine on a store that holds malformed rule sets
\* ------------------------------------------------------------------------
InitMalformadas ==
    /\ db_ref = "ref"
    /\ respuesta_get \in RespuestasMalformadas
    /\ reglas = cargar_reglas(obtener_reglas(db_ref, respuesta_get))
    /\ hechos = << >>
    /\ conclusiones = << >>
    /\ llamada = Llamada("__init__", 0)
    /\ pc = "idle"
    /\ iteracion = 0
    /\ reglas_disparadas = {}
    /\ fases = << >>
    /\ log_inicial = << >>
    /\ datos_sembrados = << >>
    /\ retorno = << >>
    /\ excepcion = ""
    /\ persistencia = "sin_llamar"
    /\ cargas = 0
    /\ siembras = 0
    /\ agregados = 0
    /\ corridas = 0
    /\ sesiones = << >>

CargarReglasMalformadas ==
    /\ pc = "idle"
    /\ LlamadasHechas < MaxLlamadas
    /\ cargas' = cargas + 1
    /\ \E get \in RespuestasMalformadas :
          /\ respuesta_get' = get
          /\ reglas' = cargar_reglas(obtener_reglas(db_ref, get))
    /\ llamada' = Llamada("cargar_reglas", 0)
    /\ retorno' = << >>
    /\ excepcion' = ""
    /\ persistencia' = "sin_llamar"
    /\ SinCorrida
    /\ UNCHANGED sesiones
    /\ UNCHANGED << db_ref, hechos, conclusiones, pc, datos_sembrados,
                    siembras, agregados, corridas >>

NextMalformadas ==
    \/ CargarReglasMalformadas
    \/ AgregarHecho
    \/ InicializarHechos
    \/ IniciarInferencia
    \/ Iterar
    \/ AlcanzarTope
    \/ Retornar
    \/ Propagar
    \/ ObtenerSugerencias
    \/ Reiniciar

SpecMalformadas == InitMalformadas /\ [][NextMalformadas]_vars

(***************************************************************************)
(* Condition evaluation on its own.  evaluar_condicion and                 *)
(* _buscar_valor_hecho are public in effect (Python has no private         *)
(* methods) and read the list of facts they are handed; here they are      *)
(* called on a memory that agregar_hecho fills with facts of every form    *)
(* the lookup distinguishes.                                               *)
(***************************************************************************)

\* Facts for the lookup: two values of one attribute, an attribute reached
\* as tipo_atributo, a zero, a None, and a text where a number is expected.
HechosCondicion ==
    { Hecho(<<"municipio">>, <<"nivel", "contaminacion">>, Txt("Muy Alto")),
      Hecho(<<"municipio">>, <<"nivel", "contaminacion">>, Txt("Alto")),
      Hecho(<<"nivel">>, <<"contaminacion">>, Txt("Medio")),
      Hecho(<<"emision">>, <<"per", "capita">>, Num(2000)),
      Hecho(<<"emision">>, <<"per", "capita">>, Num(0)),
      Hecho(<<"emision">>, <<"per", "capita">>, Txt("8500")),
      Hecho(<<"actividad">>, <<"cantidad">>, None),
      Hecho(<<"actividad">>, <<"cantidad">>, Num(50)) }

\* The condition of R5 of the default rules (firebase_config.py 248-252).
CondicionR5 ==
    << << <<"nivel", "contaminacion">>, Txt("Muy Alto") >>,
       << <<"operador">>, Txt("OR") >>,
       << <<"nivel", "contaminacion", "alt">>, Txt("Alto") >> >>

\* The same pair of keys under the default operator.
CondicionAltAnd ==
    << << <<"nivel", "contaminacion">>, Txt("Muy Alto") >>,
       << <<"nivel", "contaminacion", "alt">>, Txt("Alto") >> >>

CondicionMayorQue ==
    << << <<"emision", "per", "capita", "mayor", "que">>, Num(0) >> >>

CondicionMenorQue ==
    << << <<"emision", "per", "capita", "menor", "que">>, Num(2000) >> >>

\* The condition {cantidad: 50, operador: 'OR', cantidad_alt: 50}.
CondicionCantidadAlt ==
    << << <<"cantidad">>, Num(50) >>,
       << <<"operador">>, Txt("OR") >>,
       << <<"cantidad", "alt">>, Num(50) >> >>

CondicionesEjemplo ==
    { CondicionR5, CondicionAltAnd, CondicionMayorQue, CondicionMenorQue,
      << >>,
      << << <<"operador">>, Txt("OR") >> >>,
      << << <<"operador">>, Txt("AND") >> >>,
      << << <<"nivel", "contaminacion">>, Txt("Muy Alto") >>,
         << <<"cantidad", "mayor", "que">>, Num(30) >>,
         << <<"operador">>, Txt("AND") >> >>,
      << << <<"nivel", "contaminacion">>, Txt("Alto") >>,
         << <<"emision", "per", "capita", "menor", "que">>, Num(2000) >>,
         << <<"operador">>, Txt("OR") >> >>,
      CondicionCantidadAlt,
      << << <<"nivel", "contaminacion">>, Txt("Alto") >>,
         << <<"operador">>, Txt("XOR") >> >> }

\* Keys for the lookup, one or more of each form it accepts.
ClavesEjemplo ==
    { <<"nivel", "contaminacion">>, <<"municipio", "nivel", "contaminacion">>,
      <<"nivelcontaminacion">>, <<"contaminacion">>,
      <<"emision", "per", "capita">>, <<"per", "capita">>, <<"percapita">>,
      <<"cantidad">>, <<"actividad", "cantidad">>, <<"perfil">> }

InitCondicion ==
    /\ db_ref = "None"
    /\ respuesta_get = RespuestaNone
    /\ reglas = cargar_reglas(obtener_reglas(db_ref, respuesta_get))
    /\ hechos = << >>
    /\ conclusiones = << >>
    /\ llamada = Llamada("__init__", 0)
    /\ pc = "idle"
    /\ iteracion = 0
    /\ reglas_disparadas = {}
    /\ fases = << >>
    /\ log_inicial = << >>
    /\ datos_sembrados = << >>
    /\ retorno = << >>
    /\ excepcion = ""
    /\ persistencia = "sin_llamar"
    /\ cargas = 0
    /\ siembras = 0
    /\ agregados = 0
    /\ corridas = 0
    /\ sesiones = << >>

\* memoria_trabajo.agregar_hecho(tipo, atributo, valor)
AgregarHechoCondicion ==
    /\ pc = "idle"
    /\ LlamadasHechas < MaxLlamadas
    /\ \E hecho \in HechosCondicion :
          /\ hechos' = agregar_hecho(hechos, hecho)
          /\ llamada' = Llamada("agregar_hecho", hecho)
    /\ agregados' = agregados + 1
    /\ retorno' = << >>
    /\ excepcion' = ""
    /\ persistencia' = "sin_llamar"
    /\ SinCorrida
    /\ UNCHANGED sesiones
    /\ UNCHANGED << cargas, db_ref, respuesta_get, reglas, conclusiones, pc,
                    datos_sembrados, siembras, corridas >>

\* evaluar_condicion(condicion, memoria_trabajo.hechos)
EvaluarCondicion ==
    /\ pc = "idle"
    /\ \E condicion \in CondicionesEjemplo :
          LET resultado == evaluar_condicion(condicion, hechos) IN
          /\ llamada' = Llamada("evaluar_condicion", condicion)
          /\ IF resultado = "TypeError"
             THEN retorno' = << >> /\ excepcion' = "TypeError"
             ELSE retorno' = resultado /\ excepcion' = ""
    /\ persistencia' = "sin_llamar"
    /\ SinCorrida
    /\ UNCHANGED sesiones
    /\ UNCHANGED << cargas, db_ref, respuesta_get, reglas, hechos,
                    conclusiones, pc, datos_sembrados, siembras, agregados,
                    corridas >>

\* _buscar_valor_hecho(atributo, memoria_trabajo.hechos)
BuscarValorHecho ==
    /\ pc = "idle"
    /\ \E atributo \in ClavesEjemplo :
          /\ llamada' = Llamada("_buscar_valor_hecho", atributo)
          /\ retorno' = buscar_valor_hecho(atributo, hechos)
    /\ excepcion' = ""
    /\ persistencia' = "sin_llamar"
    /\ SinCorrida
    /\ UNCHANGED sesiones
    /\ UNCHANGED << cargas, db_ref, respuesta_get, reglas, hechos,
                    conclusiones, pc, datos_sembrados, siembras, agregados,
                    corridas >>

NextCondicion ==
    \/ AgregarHechoCondicion
    \/ EvaluarCondicion
    \/ BuscarValorHecho
    \/ Reiniciar

SpecCondicion == InitCondicion /\ [][NextCondicion]_vars

\* ------------------------------------------------------------------------
\* The engine on a store whose rule set has an id in two groups
\* ------------------------------------------------------------------------
\* RP produces the sugerencia that RK and RM require, and RK, which goes
\* first, produces another sugerencia; the two rules RH of the groups uno
\* and dos match the same municipalities.
reglas_homonimas ==
    << [grupo |-> "cadena",
        reglas |-> <<
          [id |-> "RP",
           regla |-> Regla("Productor",
              << << <<"perfil">>, Txt(EcologistaComprometido) >> >>,
              [sugerencia |-> Txt("s1")],
              5)],
          [id |-> "RK",
           regla |-> Regla("Consumidor que produce",
              << << <<"inferencia", "sugerencia">>, Txt("s1") >> >>,
              [sugerencia |-> Txt("s2")],
              9)],
          [id |-> "RM",
           regla |-> Regla("Consumidor",
              << << <<"sugerencia">>, Txt("s1") >> >>,
              [contexto |-> Txt("c1")],
              2)] >>],
       [grupo |-> "uno",
        reglas |-> <<
          [id |-> "RH",
           regla |-> Regla("Contaminacion alta",
              << << <<"nivel", "contaminacion">>, Txt("Alto") >> >>,
              [refuerzo_positivo |-> Txt("r1")],
              4)] >>],
       [grupo |-> "dos",
        reglas |-> <<
          [id |-> "RH",
           regla |-> Regla("Municipio rural",
              << << <<"tipo">>, Txt("Rural") >> >>,
              [contexto |-> Txt("c2")],
              4)] >>] >>

InitHomonimas ==
    /\ db_ref = "ref"
    /\ respuesta_get = RespuestaDict(reglas_homonimas)
    /\ reglas = cargar_reglas(obtener_reglas(db_ref, respuesta_get))
    /\ hechos = << >>
    /\ conclusiones = << >>
    /\ llamada = Llamada("__init__", 0)
    /\ pc = "idle"
    /\ iteracion = 0
    /\ reglas_disparadas = {}
    /\ fases = << >>
    /\ log_inicial = << >>
    /\ datos_sembrados = << >>
    /\ retorno = << >>
    /\ excepcion = ""
    /\ persistencia = "sin_llamar"
    /\ cargas = 0
    /\ siembras = 0
    /\ agregados = 0
    /\ corridas = 0
    /\ sesiones = << >>

NextHomonimas ==
    \/ InicializarHechos
    \/ IniciarInferencia
    \/ Iterar
    \/ AlcanzarTope
    \/ Retornar
    \/ Reiniciar

SpecHomonimas == InitHomonimas /\ [][NextHomonimas]_vars

\* ------------------------------------------------------------------------
\* ejecutar_inferencia as one operation
\* ------------------------------------------------------------------------
\* The while loop of ejecutar_inferencia from the state of its locals: the
\* memory and the log when the loop is left, and the exception that left
\* it, "" when it ended by the break or by the cap.
RECURSIVE BucleInferencia(_, _, _, _, _, _)
BucleInferencia(rs, hs, cs, disparadas, i, max_iteraciones) ==
    IF ~CondicionWhile(i, max_iteraciones)
    THEN [hechos |-> hs, conclusiones |-> cs, excepcion |-> ""]
    ELSE LET match == buscar_reglas_aplicables(rs, disparadas, hs) IN
         IF match.excepcion # ""
         THEN [hechos |-> hs, conclusiones |-> cs,
               excepcion |-> match.excepcion]
         ELSE IF Len(match.aplicables) = 0
         THEN [hechos |-> hs, conclusiones |-> cs, excepcion |-> ""]
         ELSE IF ErrorDeSeleccion(match.aplicables) # ""
         THEN [hechos |-> hs, conclusiones |-> cs,
               excepcion |-> ErrorDeSeleccion(match.aplicables)]
         ELSE LET regla_seleccionada == MaxPrioridad(match.aplicables) IN
              BucleInferencia(rs,
                  HechosDerivados(hs, regla_seleccionada.regla.conclusion),
                  Append(cs, Registro(regla_seleccionada.regla)),
                  disparadas \cup {regla_seleccionada.id},
                  i + 1, max_iteraciones)

\* A whole call of ejecutar_inferencia(max_iteraciones) on the memory hs and
\* the log cs.
ejecutar_inferencia(rs, hs, cs, max_iteraciones) ==
    BucleInferencia(rs, hs, cs, DisparadasAlIniciar(rs, cs), 0,
                    max_iteraciones)

\* ------------------------------------------------------------------------
\* The engine seeded with lists of activities
\* ------------------------------------------------------------------------
\* The longest list of activities of a record.
MaxActividades == 2

\* Activities: two that differ in cantidad only, one of another category,
\* one whose cantidad is that of another category's, one without cantidad.
ActividadesPosibles ==
    { [categoria |-> Txt("transporte"), sub_categoria |-> Txt("auto_gasolina"),
       cantidad |-> Num(50)],
      [categoria |-> Txt("transporte"), sub_categoria |-> Txt("auto_gasolina"),
       cantidad |-> Num(20)],
      [categoria |-> Txt("energia"), sub_categoria |-> Txt("electricidad_red"),
       cantidad |-> Num(350)],
      [categoria |-> Txt("energia"), sub_categoria |-> Txt("electricidad_red"),
       cantidad |-> Num(50)],
      [categoria |-> Txt("transporte"), sub_categoria |-> Txt("bicicleta")] }

ListasDeActividades ==
    UNION {[1..n -> ActividadesPosibles] : n \in 0..MaxActividades}

\* The record of a user with these activities.
DatosConActividades(actividades) ==
    [perfil |-> Txt(EcologistaComprometido), actividades |-> actividades]

\* The engine is constructed on a store that holds the default rule set.
InitActividades ==
    /\ db_ref = "ref"
    /\ respuesta_get = RespuestaDict(reglas_default)
    /\ reglas = cargar_reglas(obtener_reglas(db_ref, respuesta_get))
    /\ hechos = << >>
    /\ conclusiones = << >>
    /\ llamada = Llamada("__init__", 0)
    /\ pc = "idle"
    /\ iteracion = 0
    /\ reglas_disparadas = {}
    /\ fases = << >>
    /\ log_inicial = << >>
    /\ datos_sembrados = << >>
    /\ retorno = << >>
    /\ excepcion = ""
    /\ persistencia = "sin_llamar"
    /\ cargas = 0
    /\ siembras = 0
    /\ agregados = 0
    /\ corridas = 0
    /\ sesiones = << >>

\* inicializar_hechos_desde_usuario(datos_usuario) on the empty memory.
SembrarActividades ==
    /\ pc = "idle"
    /\ LlamadasHechas < MaxLlamadas
    /\ hechos = << >>
    /\ \E actividades \in ListasDeActividades :
          LET datos_usuario == DatosConActividades(actividades) IN
          /\ hechos' = inicializar_hechos_desde_usuario(hechos, datos_usuario)
          /\ llamada' = Llamada("inicializar_hechos_desde_usuario",
                                datos_usuario)
          /\ datos_sembrados' = Append(datos_sembrados, datos_usuario)
    /\ siembras' = siembras + 1
    /\ retorno' = << >>
    /\ excepcion' = ""
    /\ persistencia' = "sin_llamar"
    /\ SinCorrida
    /\ UNCHANGED sesiones
    /\ UNCHANGED << cargas, db_ref, respuesta_get, reglas, conclusiones, pc,
                    agregados, corridas >>

NextActividades ==
    \/ SembrarActividades
    \/ IniciarInferencia
    \/ Iterar
    \/ AlcanzarTope
    \/ Retornar
    \/ Reiniciar

SpecActividades == InitActividades /\ [][NextActividades]_vars

\* ------------------------------------------------------------------------
\* generar_sugerencias on the engine that inicializar_motor caches
\* ------------------------------------------------------------------------
\* st.cache_resource gives every caller of inicializar_motor the engine of
\* the first call: the engine variables above are that one engine.  Two
\* calls of generar_sugerencias are in progress, each in its own thread of
\* the server; a step is one call of a method of the engine, and the steps
\* of the two calls interleave in any order.
Llamadores == {"a", "b"}

\* motor.ejecutar_inferencia(max_iteraciones=10)
IteracionesApp == 10

\* Rows of the data set of municipalities.
FilaIndustrial ==
    [municipio |-> Txt("Tula de Allende"),
     tipo_municipio |-> Txt("Industrial Pesado"),
     nivel_contaminacion |-> Txt("Muy Alto"),
     emision_transporte_ton |-> Num(90000),
     emision_energia_ton |-> Num(120000),
     emision_residuos_ton |-> Num(20000),
     emision_industria_ton |-> Num(180000),
     emision_agricultura_ton |-> Num(5000),
     emision_per_capita_kg |-> Num(8500)]

FilaUrbana ==
    [municipio |-> Txt("Pachuca de Soto"),
     tipo_municipio |-> Txt("Urbano"),
     nivel_contaminacion |-> Txt("Medio"),
     emision_transporte_ton |-> Num(60000),
     emision_energia_ton |-> Num(80000),
     emision_residuos_ton |-> Num(30000),
     emision_industria_ton |-> Num(20000),
     emision_agricultura_ton |-> Num(1000),
     emision_per_capita_kg |-> Num(3500)]

FilaRural ==
    [municipio |-> Txt("Actopan"),
     tipo_municipio |-> Txt("Rural"),
     nivel_contaminacion |-> Txt("Bajo"),
     emision_transporte_ton |-> Num(9000),
     emision_energia_ton |-> Num(6000),
     emision_residuos_ton |-> Num(2000),
     emision_industria_ton |-> Num(1000),
     emision_agricultura_ton |-> Num(9000),
     emision_per_capita_kg |-> Num(1500)]

FilasMunicipio == { FilaIndustrial, FilaUrbana, FilaRural }

PerfilesApp == { Txt("El principiante"), Txt(EcologistaComprometido) }

\* The dict emisiones of generar_sugerencias_clasicas, in its order.
EmisionesClasicas ==
    << [categoria |-> "Transporte", campo |-> "emision_transporte_ton"],
       [categoria |-> "Energia", campo |-> "emision_energia_ton"],
       [categoria |-> "Residuos", campo |-> "emision_residuos_ton"],
       [categoria |-> "Industria", campo |-> "emision_industria_ton"],
       [categoria |-> "Agricultura", campo |-> "emision_agricultura_ton"] >>

\* max(emisiones, key=emisiones.get): the first key of the greatest value.
categoria_mayor(datos_municipio) ==
    LET valor(i) == datos_municipio[EmisionesClasicas[i].campo].v
        n == CHOOSE i \in 1..Len(EmisionesClasicas) :
                 /\ \A j \in 1..Len(EmisionesClasicas) : valor(j) <= valor(i)
                 /\ \A j \in 1..(i - 1) : valor(j) < valor(i)
    IN  EmisionesClasicas[n].categoria

Sugerencia(emoji, texto) == [emoji |-> emoji, texto |-> Txt(texto)]

\* generar_sugerencias_clasicas: by the category of the greatest emission
\* and the profile; nothing for a category other than Transporte and Energia.
generar_sugerencias_clasicas(datos_municipio, perfil) ==
    IF categoria_mayor(datos_municipio) = "Transporte"
    THEN IF perfil = Txt("El principiante")
         THEN << Sugerencia("bicicleta",
                   "Intenta usar bicicleta o caminar para distancias cortas"),
                 Sugerencia("autobus",
                   "Usa transporte publico al menos 2 dias a la semana") >>
         ELSE IF perfil = Txt(EcologistaComprometido)
         THEN << Sugerencia("auto",
                   "Considera cambiar a un vehiculo electrico o hibrido"),
                 Sugerencia("ciclista",
                   "Implementa un plan de movilidad sostenible") >>
         ELSE << Sugerencia("familia",
                   "Organiza carpools con otras familias") >>
    ELSE IF categoria_mayor(datos_municipio) = "Energia"
    THEN IF perfil = Txt("El principiante")
         THEN << Sugerencia("bombilla",
                   "Cambia a focos LED en toda la casa"),
                 Sugerencia("copo",
                   "Ajusta el termostato del AC 2 grados mas alto") >>
         ELSE IF perfil = Txt(EcologistaComprometido)
         THEN << Sugerencia("sol", "Instala paneles solares"),
                 Sugerencia("enchufe",
                   "Implementa sistema de monitoreo energetico") >>
         ELSE << Sugerencia("familia",
                   "Establece horarios familiares para apagar dispositivos") >>
    ELSE << >>

\* The dict datos_usuario that generar_sugerencias builds.
DatosDeUsuario(datos_municipio, perfil) ==
    [municipio |-> datos_municipio.municipio,
     tipo_municipio |-> datos_municipio.tipo_municipio,
     nivel_contaminacion |-> datos_municipio.nivel_contaminacion,
     emision_industria_ton |-> datos_municipio.emision_industria_ton,
     perfil |-> perfil,
     emision_per_capita_kg |-> datos_municipio.emision_per_capita_kg,
     actividades |->
        << [categoria |-> Txt("transporte"),
            sub_categoria |-> Txt("auto_gasolina"), cantidad |-> Num(30)],
           [categoria |-> Txt("energia"),
            sub_categoria |-> Txt("electricidad_red"),
            cantidad |-> Num(250)] >>]

\* What generar_sugerencias returns after its try block: the formatted log,
\* or the classic suggestions when that is empty.
SugerenciasDe(cs, datos_municipio, perfil) ==
    IF obtener_sugerencias_formateadas(cs) = << >>
    THEN generar_sugerencias_clasicas(datos_municipio, perfil)
    ELSE obtener_sugerencias_formateadas(cs)

\* generar_sugerencias by a caller that has the engine for itself.
generar_sugerencias(rs, datos_municipio, perfil) ==
    LET sembrados == inicializar_hechos_desde_usuario(
                         << >>, DatosDeUsuario(datos_municipio, perfil))
        corrida == ejecutar_inferencia(rs, sembrados, << >>, IteracionesApp)
    IN  IF corrida.excepcion # ""
        THEN generar_sugerencias_clasicas(datos_municipio, perfil)
        ELSE SugerenciasDe(corrida.conclusiones, datos_municipio, perfil)

Sesion(paso, datos_municipio, perfil, resultado) ==
    [paso |-> paso, datos_municipio |-> datos_municipio, perfil |-> perfil,
     resultado |-> resultado]

\* The engine was constructed, with the store's default rules or without a
\* connection, and two calls of generar_sugerencias have got it from
\* inicializar_motor.
InitDosSesiones ==
    /\ \/ db_ref = "ref" /\ respuesta_get = RespuestaDict(reglas_default)
       \/ db_ref = "None" /\ respuesta_get = RespuestaNone
    /\ reglas = cargar_reglas(obtener_reglas(db_ref, respuesta_get))
    /\ hechos = << >>
    /\ conclusiones = << >>
    /\ llamada = Llamada("__init__", 0)
    /\ pc = "idle"
    /\ iteracion = 0
    /\ reglas_disparadas = {}
    /\ fases = << >>
    /\ log_inicial = << >>
    /\ datos_sembrados = << >>
    /\ retorno = << >>
    /\ excepcion = ""
    /\ persistencia = "sin_llamar"
    /\ cargas = 0
    /\ siembras = 0
    /\ agregados = 0
    /\ corridas = 0
    /\ sesiones \in [Llamadores ->
                       { Sesion("reiniciar", f, p, << >>) :
                           f \in FilasMunicipio, p \in PerfilesApp }]

\* The caller's step is done: its next one, and what it has to return.
Avanzar(c, paso, resultado) ==
    sesiones' = [sesiones EXCEPT ![c].paso = paso, ![c].resultado = resultado]

\* motor.reiniciar()
SesionReiniciar ==
    /\ \E c \in Llamadores :
          /\ sesiones[c].paso = "reiniciar"
          /\ Avanzar(c, "sembrar", << >>)
          /\ llamada' = Llamada("generar_sugerencias", c)
    /\ hechos' = << >>
    /\ conclusiones' = << >>
    /\ datos_sembrados' = << >>
    /\ retorno' = << >>
    /\ excepcion' = ""
    /\ persistencia' = "sin_llamar"
    /\ cargas' = 0
    /\ siembras' = 0
    /\ agregados' = 0
    /\ corridas' = 0
    /\ SinCorrida
    /\ UNCHANGED << db_ref, respuesta_get, reglas, pc >>

\* motor.inicializar_hechos_desde_usuario(datos_usuario)
SesionSembrar ==
    /\ \E c \in Llamadores :
          LET datos_usuario == DatosDeUsuario(sesiones[c].datos_municipio,
                                              sesiones[c].perfil) IN
          /\ sesiones[c].paso = "sembrar"
          /\ hechos' = inicializar_hechos_desde_usuario(hechos, datos_usuario)
          /\ datos_sembrados' = Append(datos_sembrados, datos_usuario)
          /\ Avanzar(c, "ejecutar", << >>)
          /\ llamada' = Llamada("generar_sugerencias", c)
    /\ siembras' = siembras + 1
    /\ retorno' = << >>
    /\ excepcion' = ""
    /\ persistencia' = "sin_llamar"
    /\ SinCorrida
    /\ UNCHANGED << cargas, db_ref, respuesta_get, reglas, conclusiones, pc,
                    agregados, corridas >>

\* motor.ejecutar_inferencia(max_iteraciones=10), the whole call; what it
\* raises is caught and the classic suggestions are returned.
SesionEjecutar ==
    /\ \E c \in Llamadores :
          LET corrida == ejecutar_inferencia(reglas, hechos, conclusiones,
                                             IteracionesApp) IN
          /\ sesiones[c].paso = "ejecutar"
          /\ hechos' = corrida.hechos
          /\ conclusiones' = corrida.conclusiones
          /\ excepcion' = corrida.excepcion
          /\ IF corrida.excepcion # ""
             THEN /\ Avanzar(c, "fin",
                             generar_sugerencias_clasicas(
                                 sesiones[c].datos_municipio,
                                 sesiones[c].perfil))
                  /\ retorno' = << >>
                  /\ persistencia' = "sin_llamar"
             ELSE /\ Avanzar(c, "formatear", << >>)
                  /\ retorno' = corrida.conclusiones
                  /\ IF Len(corrida.conclusiones) > 0
                     THEN \E push_falla \in BOOLEAN :
                             persistencia' =
                                 guardar_inferencia(db_ref, push_falla)
                     ELSE persistencia' = "sin_llamar"
          /\ llamada' = Llamada("generar_sugerencias", c)
    /\ corridas' = corridas + 1
    /\ SinCorrida
    /\ UNCHANGED << cargas, db_ref, respuesta_get, reglas, pc,
                    datos_sembrados, siembras, agregados >>

\* motor.obtener_sugerencias_formateadas(), the test of its result and the
\* return.
SesionFormatear ==
    /\ \E c \in Llamadores :
          /\ sesiones[c].paso = "formatear"
          /\ Avanzar(c, "fin",
                     SugerenciasDe(conclusiones,
                                   sesiones[c].datos_municipio,
                                   sesiones[c].perfil))
          /\ llamada' = Llamada("generar_sugerencias", c)
    /\ retorno' = obtener_sugerencias_formateadas(conclusiones)
    /\ excepcion' = ""
    /\ persistencia' = "sin_llamar"
    /\ SinCorrida
    /\ UNCHANGED << cargas, db_ref, respuesta_get, reglas, hechos,
                    conclusiones, pc, datos_sembrados, siembras, agregados,
                    corridas >>

NextDosSesiones ==
    \/ SesionReiniciar
    \/ SesionSembrar
    \/ SesionEjecutar
    \/ SesionFormatear

SpecDosSesiones == InitDosSesiones /\ [][NextDosSesiones]_vars

\* ------------------------------------------------------------------------
\* Properties
\* ------------------------------------------------------------------------
\* The last call of the engine is ejecutar_inferencia, running or returned.
EnCorrida == llamada.op = "ejecutar_inferencia"

\* The loop of this call ended in a MATCH phase that found no rule.
Agotada ==
    /\ EnCorrida
    /\ Len(fases) > 0
    /\ fases[Len(fases)].seleccionada = << >>

\* The phases of this call in which a rule was selected.
FasesConSeleccion == {k \in 1..Len(fases) : fases[k].seleccionada # << >>}

Seleccionada(k) == fases[k].seleccionada[1]

PrefijoDe(a, b) == Len(a) <= Len(b) /\ SubSeq(b, 1, Len(a)) = a

\* Since the last reiniciar (or the construction) the record d was seeded
\* into the empty memory and ejecutar_inferencia was called once.
SesionSimple(d) ==
    /\ EnCorrida
    /\ datos_sembrados = << d >>
    /\ agregados = 0
    /\ corridas = 1

\* The cap of the call, as the number of iterations it allows.
TopeEfectivo == IF llamada.arg > 0 THEN llamada.arg ELSE 0

\* C1: ejecutar_inferencia(max_iteraciones=N) makes at most N iterations and
\* appends at most N records to the log, which it only extends; when all N
\* iterations selected a rule it still returns the log, without an
\* exception; for N <= 0 no MATCH phase takes place and the log is returned
\* as it was.
C1_Terminacion ==
    EnCorrida =>
        /\ iteracion <= TopeEfectivo
        /\ Len(fases) <= iteracion
        /\ PrefijoDe(log_inicial, conclusiones)
        /\ Len(conclusiones) - Len(log_inicial) <= TopeEfectivo
        /\ Len(conclusiones) - Len(log_inicial) = Cardinality(FasesConSeleccion)
        /\ (pc = "idle" /\ Len(fases) = TopeEfectivo /\ ~Agotada) =>
               (excepcion = "" /\ retorno = conclusiones)
        /\ llamada.arg <= 0 =>
               /\ fases = << >>
               /\ conclusiones = log_inicial
               /\ excepcion = ""
               /\ pc = "idle" => retorno = log_inicial

\* A call with cap 2 returned after two firings while a rule was still
\* applicable.
C1_Testigo ==
    /\ EnCorrida
    /\ pc = "idle"
    /\ llamada.arg = 2
    /\ Cardinality(FasesConSeleccion) = 2
    /\ Len(conclusiones) = Len(log_inicial) + 2
    /\ retorno = conclusiones
    /\ buscar_reglas_aplicables(reglas, reglas_disparadas, hechos).aplicables
           # << >>

\* C2: in a session of one seed and one run no rule id is selected twice,
\* and the log holds exactly one record per fired id.
C2_SinRepeticion ==
    (EnCorrida /\ corridas = 1) =>
        /\ \A i, j \in FasesConSeleccion :
               i # j => Seleccionada(i).id # Seleccionada(j).id
        /\ reglas_disparadas = {Seleccionada(k).id : k \in FasesConSeleccion}
        /\ Len(conclusiones) = Cardinality(reglas_disparadas)

\* A rule that fired in the first iteration still holds in the third.
C2_Testigo ==
    /\ EnCorrida
    /\ corridas = 1
    /\ iteracion >= 3
    /\ 1 \in FasesConSeleccion
    /\ evaluar_condicion(Seleccionada(1).regla.condiciones, hechos) = "True"

\* The ids that more than one rule of the loaded set carries.
IdRepetido(id) ==
    \E i, j \in 1..Len(EnOrden(reglas)) :
        i # j /\ EnOrden(reglas)[i].id = id /\ EnOrden(reglas)[j].id = id

\* The rule selected in phase k has a priority at least that of every rule
\* of the MATCH result and strictly greater than that of those before it in
\* the traversal, and no rule of the MATCH result has fired yet.
SeleccionCorrecta(k) ==
    LET ap == fases[k].aplicables
        sel == Seleccionada(k)
    IN  /\ \E p \in 1..Len(ap) :
               /\ ap[p] = sel
               /\ \A i \in 1..Len(ap) :
                      /\ ap[i].regla.prioridad <= sel.regla.prioridad
                      /\ i < p => ap[i].regla.prioridad < sel.regla.prioridad
        /\ \A i \in 1..Len(ap) : \A j \in FasesConSeleccion :
               j < k => Seleccionada(j).id # ap[i].id

\* C3 as claimed: every RESOLVE step selects the first rule of the greatest
\* priority among the unfired matching rules, and of two rules A and B of
\* one MATCH result with A of the higher priority, B is logged only after A.
C3_PrioridadOriginal ==
    EnCorrida =>
        \A k \in FasesConSeleccion :
            /\ SeleccionCorrecta(k)
            /\ \A a, b \in 1..Len(fases[k].aplicables) :
                   fases[k].aplicables[a].regla.prioridad
                       > fases[k].aplicables[b].regla.prioridad =>
                       \A j \in FasesConSeleccion :
                           Seleccionada(j) = fases[k].aplicables[b] =>
                               \E i \in FasesConSeleccion :
                                   /\ i < j
                                   /\ Seleccionada(i) = fases[k].aplicables[a]

\* C3: every RESOLVE step selects the first rule of the greatest priority
\* among the unfired matching rules; of two rules A and B of one MATCH
\* result with A of the higher priority, B is never logged before A, and B
\* is logged only after A when A's id is the id of no other rule.
C3_Prioridad ==
    EnCorrida =>
        \A k \in FasesConSeleccion :
            /\ SeleccionCorrecta(k)
            /\ \A a, b \in 1..Len(fases[k].aplicables) :
                   fases[k].aplicables[a].regla.prioridad
                       > fases[k].aplicables[b].regla.prioridad =>
                       \A j \in FasesConSeleccion :
                           Seleccionada(j) = fases[k].aplicables[b] =>
                               /\ \A i \in FasesConSeleccion :
                                      Seleccionada(i) = fases[k].aplicables[a]
                                          => i < j
                               /\ ~IdRepetido(fases[k].aplicables[a].id) =>
                                      \E i \in FasesConSeleccion :
                                          /\ i < j
                                          /\ Seleccionada(i)
                                                 = fases[k].aplicables[a]

\* Two rules of different priorities matched in one phase and both fired,
\* and a phase had two rules of the greatest priority.
C3_Testigo ==
    /\ EnCorrida
    /\ \E k \in FasesConSeleccion : \E a, b \in 1..Len(fases[k].aplicables) :
           /\ fases[k].aplicables[a].regla.prioridad
                  > fases[k].aplicables[b].regla.prioridad
           /\ \E i, j \in FasesConSeleccion :
                  /\ Seleccionada(i) = fases[k].aplicables[a]
                  /\ Seleccionada(j) = fases[k].aplicables[b]
    /\ \E k \in FasesConSeleccion : \E a, b \in 1..Len(fases[k].aplicables) :
           /\ a < b
           /\ fases[k].aplicables[a] = Seleccionada(k)
           /\ fases[k].aplicables[b].regla.prioridad
                  = Seleccionada(k).regla.prioridad

\* C4: the industrial high-emission record without the municipio field,
\* run to exhaustion against the fallback set, fires R_EMISION_ALTA and
\* R_MUNICIPIO_INDUSTRIAL and not R_BAJO_IMPACTO.
C4_EscenarioIndustrial ==
    (SesionSimple(DatosIndustrialSinMunicipio) /\ reglas = reglas_fallback
     /\ Agotada) =>
        /\ "R_EMISION_ALTA" \in reglas_disparadas
        /\ "R_MUNICIPIO_INDUSTRIAL" \in reglas_disparadas
        /\ "R_BAJO_IMPACTO" \notin reglas_disparadas

\* C5: the low-emission record of a committed ecologist, run to exhaustion
\* against the fallback set, fires R_BAJO_IMPACTO and nothing else.
C5_EscenarioBajoImpacto ==
    (SesionSimple(DatosBajoImpacto) /\ reglas = reglas_fallback /\ Agotada) =>
        /\ reglas_disparadas = {"R_BAJO_IMPACTO"}
        /\ Len(conclusiones) = 1
        /\ conclusiones[1].regla = "Refuerzo Positivo"
        /\ DOMAIN conclusiones[1].conclusion = {"refuerzo_positivo"}

C5_Testigo ==
    /\ SesionSimple(DatosBajoImpacto)
    /\ reglas = reglas_fallback
    /\ Agotada
    /\ pc = "idle"
    /\ Len(retorno) = 1

\* C6: a run on a memory into which nothing was put stops in its first
\* iteration, whatever the rule set: no rule is selected, the log and the
\* memory stay empty, and the empty list is returned.
C6_MemoriaVacia ==
    (EnCorrida /\ siembras = 0 /\ agregados = 0) =>
        /\ hechos = << >>
        /\ conclusiones = << >>
        /\ iteracion <= 1
        /\ FasesConSeleccion = {}
        /\ excepcion = ""
        /\ (llamada.arg >= 1 /\ pc # "while") => (iteracion = 1 /\ Agotada)
        /\ pc = "idle" => retorno = << >>

\* A run on the empty memory against a rule set that has a rule with no
\* term and rules combined with OR has returned.
C6_Testigo ==
    /\ EnCorrida
    /\ siembras = 0
    /\ agregados = 0
    /\ reglas = reglas_encadenadas
    /\ pc = "idle"
    /\ iteracion = 1
    /\ Agotada

\* The load of rules did not get a usable mapping from the provider.
ProveedorFallido ==
    \/ db_ref = "None"
    \/ respuesta_get.clase \in {"excepcion", "NoneType"}
    \/ respuesta_get.clase # "dict"
    \/ respuesta_get.len = 0

\* The fallback rules whose conditions, read on the typed facts, hold.
FallbackQueAplican(hs) ==
    LET per_capita == obtener_valor(hs, <<"emision">>, <<"per", "capita">>)
    IN  {id \in {"R_EMISION_ALTA"} :
             per_capita.t = "num" /\ per_capita.v > 5000}
        \cup
        {id \in {"R_MUNICIPIO_INDUSTRIAL"} :
             /\ obtener_valor(hs, <<"municipio">>, <<"tipo">>)
                    = Txt("Industrial Pesado")
             /\ obtener_valor(hs, <<"municipio">>, <<"nivel", "contaminacion">>)
                    = Txt("Muy Alto")}
        \cup
        {id \in {"R_BAJO_IMPACTO"} :
             /\ per_capita.t = "num" /\ per_capita.v < 3000
             /\ obtener_valor(hs, <<"usuario">>, <<"perfil">>)
                    = Txt(EcologistaComprometido)}

\* C7: when the provider has no connection, raises, or returns None, an
\* empty mapping or a value that is not a mapping, cargar_reglas raises
\* nothing and the rule set is the fallback set; a run to exhaustion on
\* seeded facts then fires exactly the fallback rules whose conditions hold.
C7_Fallback ==
    ProveedorFallido =>
        /\ reglas = reglas_fallback
        /\ {EnOrden(reglas)[i].id : i \in 1..Len(EnOrden(reglas))}
               = {"R_EMISION_ALTA", "R_MUNICIPIO_INDUSTRIAL", "R_BAJO_IMPACTO"}
        /\ llamada.op = "cargar_reglas" => excepcion = ""
        /\ (EnCorrida /\ agregados = 0 /\ corridas = 1 /\ Agotada) =>
               reglas_disparadas = FallbackQueAplican(hechos)

\* The store returned a list, the fallback set was loaded and a run on it
\* fired two rules.
C7_Testigo ==
    /\ db_ref = "ref"
    /\ respuesta_get.clase = "list"
    /\ EnCorrida
    /\ agregados = 0
    /\ corridas = 1
    /\ Agotada
    /\ Cardinality(reglas_disparadas) = 2

\* C8: a call of agregar_hecho with a fact whose (tipo, atributo, valor) is in
\* the memory leaves the memory as it is: same facts, same confidences.
C8_Idempotencia ==
    [][ ( /\ llamada'.op = "agregar_hecho"
          /\ agregados' = agregados + 1
          /\ \E i \in 1..Len(hechos) : MismaTerna(hechos[i], llamada'.arg) )
        => hechos' = hechos ]_vars

\* agregar_hecho was called with a fact that the memory holds with another
\* confidence.
C8_Testigo ==
    /\ llamada.op = "agregar_hecho"
    /\ \E i \in 1..Len(hechos) :
           /\ MismaTerna(hechos[i], llamada.arg)
           /\ hechos[i].confianza # llamada.arg.confianza

\* The scalar fields of a seed record and the fact of each.
CamposSemilla ==
    { [campo |-> "municipio", tipo |-> <<"municipio">>,
       atributo |-> <<"nombre">>],
      [campo |-> "tipo_municipio", tipo |-> <<"municipio">>,
       atributo |-> <<"tipo">>],
      [campo |-> "nivel_contaminacion", tipo |-> <<"municipio">>,
       atributo |-> <<"nivel", "contaminacion">>],
      [campo |-> "emision_industria_ton", tipo |-> <<"municipio">>,
       atributo |-> <<"emision", "industria">>],
      [campo |-> "perfil", tipo |-> <<"usuario">>, atributo |-> <<"perfil">>],
      [campo |-> "emision_per_capita_kg", tipo |-> <<"emision">>,
       atributo |-> <<"per", "capita">>] }

HayHecho(hs, tipo, atributo) ==
    \E i \in 1..Len(hs) : hs[i].tipo = tipo /\ hs[i].atributo = atributo

\* C9: after a record is seeded into the empty memory, the fact of each
\* scalar field is in the memory exactly when the field is in the record.
C9_HechoSiiCampo ==
    ( /\ llamada.op = "inicializar_hechos_desde_usuario"
      /\ siembras = 1 /\ agregados = 0 /\ corridas = 0 ) =>
        \A c \in CamposSemilla :
            HayHecho(hechos, c.tipo, c.atributo)
                <=> c.campo \in DOMAIN llamada.arg

\* C10: no condition of a loaded rule raises on the facts of the memory, and
\* no call of the engine ends with a TypeError.
C10_SinTypeError ==
    /\ \A i \in 1..Len(EnOrden(reglas)) :
           evaluar_condicion(EnOrden(reglas)[i].regla.condiciones, hechos)
               \in {"True", "False"}
    /\ excepcion = ""

\* The rule set in use is a non-empty dict that cargar_reglas took from the
\* store as it was.
Aceptadas == respuesta_get.clase = "dict" /\ reglas = respuesta_get.grupos

\* C11: on a malformed rule set that cargar_reglas accepted, no call of
\* ejecutar_inferencia raises, and a call that has ended has returned the
\* log.
C11_SinErrorMalformadas ==
    (Aceptadas /\ EnCorrida) =>
        /\ pc # "raise"
        /\ excepcion = ""
        /\ pc = "idle" => retorno = conclusiones

\* The record of rule r is in the log cs.
EnElLog(r, cs) == \E n \in 1..Len(cs) : cs[n] = Registro(r.regla)

\* The second call of ejecutar_inferencia since the last reiniciar (or the
\* construction).
SegundaCorrida == EnCorrida /\ corridas = 2

ComoRecienConstruido ==
    /\ hechos = << >>
    /\ conclusiones = << >>
    /\ pc = "idle"
    /\ iteracion = 0
    /\ reglas_disparadas = {}
    /\ fases = << >>
    /\ log_inicial = << >>
    /\ datos_sembrados = << >>
    /\ retorno = << >>
    /\ excepcion = ""
    /\ persistencia = "sin_llamar"
    /\ cargas = 0 /\ siembras = 0 /\ agregados = 0 /\ corridas = 0

\* C13: every call of reiniciar leaves the memory and the log empty and the
\* rule set and the connection as they were, and the engine in the state of
\* one just constructed with that rule set, so that what follows (a seed, a
\* run) goes as on a fresh engine.
C13_Reiniciar ==
    [][ llamada'.op = "reiniciar" =>
            /\ hechos' = << >>
            /\ conclusiones' = << >>
            /\ reglas' = reglas
            /\ db_ref' = db_ref
            /\ respuesta_get' = respuesta_get
            /\ ComoRecienConstruido' ]_vars

\* reiniciar was called on an engine that held a rule set of the store,
\* facts and conclusions.
C13_Testigo ==
    /\ llamada.op = "reiniciar"
    /\ llamada.arg.hechos > 0
    /\ llamada.arg.conclusiones > 0
    /\ reglas = reglas_default
    /\ ComoRecienConstruido

\* C14: when the loop of ejecutar_inferencia has ended, the call returns
\* the whole log without an exception whether guardar_inferencia saved it
\* (True) or not (False: no connection, or push() raised), and the memory
\* and the log are in both cases what they were when the loop ended.
C14_PersistenciaNoPropaga ==
    [][ (pc \in {"break", "tope"} /\ pc' = "idle") =>
            /\ excepcion' = ""
            /\ retorno' = conclusiones
            /\ PrefijoDe(log_inicial, retorno')
            /\ hechos' = hechos
            /\ conclusiones' = conclusiones
            /\ Len(conclusiones) > 0 => persistencia' \in {"True", "False"}
            /\ (Len(conclusiones) > 0 /\ db_ref = "None") =>
                   persistencia' = "False" ]_vars

\* A run with a connection fired two rules, push() raised and the two
\* records were returned.
C14_Testigo ==
    /\ EnCorrida
    /\ pc = "idle"
    /\ db_ref = "ref"
    /\ persistencia = "False"
    /\ Len(retorno) = 2
    /\ retorno = conclusiones
    /\ excepcion = ""

\* The four keys that give a string, with their rank and their label.
ClavesConEtiqueta == {"sugerencia", "alerta", "refuerzo_positivo", "contexto"}

RangoDeClave(k) ==
    CASE k = "sugerencia" -> 1
      [] k = "alerta" -> 2
      [] k = "refuerzo_positivo" -> 3
      [] k = "contexto" -> 4

EmojiDeClave(k) ==
    CASE k = "sugerencia" -> "bombilla"
      [] k = "alerta" -> "advertencia"
      [] k = "refuerzo_positivo" -> "estrella"
      [] k = "contexto" -> "chincheta"

ClavesPresentes(registro) == ClavesConEtiqueta \cap DOMAIN registro.conclusion

\* The number of strings that the records before the n-th give.
RECURSIVE CadenasAntes(_, _)
CadenasAntes(cs, n) ==
    IF n <= 1 THEN 0
    ELSE CadenasAntes(cs, n - 1) + Cardinality(ClavesPresentes(cs[n - 1]))

\* The place in the result of the string of key k of the n-th record.
LugarDe(cs, n, k) ==
    CadenasAntes(cs, n)
        + Cardinality({j \in ClavesPresentes(cs[n]) :
                          RangoDeClave(j) <= RangoDeClave(k)})

\* C15: a call of obtener_sugerencias_formateadas returns as many strings as
\* there are keys among sugerencia, alerta, refuerzo_positivo and contexto
\* in the conclusions of the log; the string of a key of a record comes
\* after those of the earlier records and of the earlier keys of its
\* record and carries the label of the key and its value; the log and the
\* memory are unchanged.
C15_Formato ==
    [][ llamada'.op = "obtener_sugerencias_formateadas" =>
            /\ hechos' = hechos
            /\ conclusiones' = conclusiones
            /\ Len(retorno') = CadenasAntes(conclusiones, Len(conclusiones) + 1)
            /\ \A n \in 1..Len(conclusiones) :
                   \A k \in ClavesPresentes(conclusiones[n]) :
                       retorno'[LugarDe(conclusiones, n, k)]
                           = [emoji |-> EmojiDeClave(k),
                              texto |-> conclusiones[n].conclusion[k]] ]_vars

\* The strings of a log of two records, the second with two of the keys,
\* were returned.
C15_Testigo ==
    /\ llamada.op = "obtener_sugerencias_formateadas"
    /\ Len(conclusiones) = 2
    /\ Cardinality(ClavesPresentes(conclusiones[2])) = 2
    /\ Len(retorno) = 3
    /\ retorno[2].emoji = "advertencia"
    /\ retorno[3].emoji = "chincheta"

(***************************************************************************)
(* Condition evaluation: C16 to C20, under SpecCondicion.  A call of       *)
(* evaluar_condicion or _buscar_valor_hecho leaves the memory as it was,   *)
(* so after the call hechos is still the list that the call read.          *)
(***************************************************************************)

\* The fact is one that the key designates, in one of the four ways.
Designa(hecho, clave) ==
    \/ hecho.atributo = clave
    \/ hecho.tipo \o hecho.atributo = clave
    \/ << Pegar(hecho.atributo) >> = clave
    \/ clave = <<"emision", "per", "capita">>
         /\ hecho.atributo = <<"per", "capita">>

\* The value of the fact that the key designates and that no designated
\* fact precedes; None when the key designates no fact.
PrimerValor(clave, hs) ==
    LET designados == {i \in 1..Len(hs) : Designa(hs[i], clave)} IN
    IF designados = {} THEN None
    ELSE hs[CHOOSE i \in designados : \A j \in designados : i <= j].valor

NivelContaminacion == <<"nivel", "contaminacion">>

EmisionPerCapita == <<"emision", "per", "capita">>

\* C16 (as stated): the condition {nivel_contaminacion: 'Muy Alto',
\* nivel_contaminacion_alt: 'Alto'} under the default operator AND is true
\* when the fact found for nivel_contaminacion has the value 'Muy Alto',
\* the _alt entry being no term of its own.
C16_AltNoEsTermino ==
    ( /\ llamada.op = "evaluar_condicion"
      /\ llamada.arg = CondicionAltAnd
      /\ PrimerValor(NivelContaminacion, hechos) = Txt("Muy Alto") )
        => retorno = "True"

\* C17: a term {k: v} that has a k_alt entry is true exactly when the fact
\* found for k has the value v: a value equal to the k_alt target and not
\* to v gives false, and so does an absent value, the second lookup being
\* absent too.  Read off the OR of the condition of R5 and of a condition
\* on cantidad, where nothing else can make the result true.
C17_AltSoloSiAusente ==
    /\ ( llamada.op = "evaluar_condicion" /\ llamada.arg = CondicionR5 )
          => retorno
               = PyBool(PrimerValor(NivelContaminacion, hechos)
                            = Txt("Muy Alto"))
    /\ ( llamada.op = "evaluar_condicion"
         /\ llamada.arg = CondicionCantidadAlt )
          => retorno = PyBool(PrimerValor(<<"cantidad">>, hechos) = Num(50))

\* The condition of R5 was evaluated to false on a memory whose
\* nivel_contaminacion is 'Alto', the _alt target.
C17_Testigo ==
    /\ llamada.op = "evaluar_condicion"
    /\ llamada.arg = CondicionR5
    /\ PrimerValor(NivelContaminacion, hechos) = Txt("Alto")
    /\ retorno = "False"

\* The operator of a condition: the value of its 'operador' entry, AND
\* when it has none.
OperadorDe(condicion) ==
    IF \E i \in 1..Len(condicion) : condicion[i][1] = <<"operador">>
    THEN ValorDeClave(condicion, <<"operador">>)
    ELSE Txt("AND")

\* C18: when every term has a result, a condition under AND (the default)
\* is true exactly when it has a term and every term is true, and one
\* under OR exactly when some term is true; a condition with no term is
\* false under both.
C18_Combinacion ==
    ( llamada.op = "evaluar_condicion" /\ excepcion = "" ) =>
        LET condicion == llamada.arg
            terminos == {i \in 1..Len(condicion) :
                            condicion[i][1] # <<"operador">>}
            cierto(i) == Resultado(condicion, i, hechos) = "True"
        IN  /\ OperadorDe(condicion) = Txt("AND") =>
                 retorno = PyBool(terminos # {} /\ \A i \in terminos : cierto(i))
            /\ OperadorDe(condicion) = Txt("OR") =>
                 retorno = PyBool(\E i \in terminos : cierto(i))
            /\ ( terminos = {}
                 /\ OperadorDe(condicion) \in {Txt("AND"), Txt("OR")} )
                   => retorno = "False"

\* A condition under OR with a true term and a false one was evaluated to
\* true.
C18_Testigo ==
    /\ llamada.op = "evaluar_condicion"
    /\ excepcion = ""
    /\ OperadorDe(llamada.arg) = Txt("OR")
    /\ \E i, j \in Terminos(llamada.arg) :
          /\ Resultado(llamada.arg, i, hechos) = "True"
          /\ Resultado(llamada.arg, j, hechos) = "False"
          /\ llamada.arg[j][1] # llamada.arg[i][1] \o <<"alt">>
    /\ retorno = "True"

\* C19: _buscar_valor_hecho returns the value of the earliest fact whose
\* atributo is the key, or whose tipo and atributo joined are the key, or
\* whose atributo without underscores is the key, or whose atributo is
\* per_capita for the key emision_per_capita; it returns None when the key
\* designates no fact.
C19_PrimerHecho ==
    llamada.op = "_buscar_valor_hecho"
        => retorno = PrimerValor(llamada.arg, hechos)

\* The lookup of nivel_contaminacion returned the value of the fact
\* nivel.contaminacion, which precedes a fact whose atributo is the key
\* and whose value is another.
C19_Testigo ==
    /\ llamada.op = "_buscar_valor_hecho"
    /\ llamada.arg = NivelContaminacion
    /\ Len(hechos) >= 2
    /\ hechos[1].tipo = <<"nivel">>
    /\ hechos[2].atributo = NivelContaminacion
    /\ hechos[2].valor # hechos[1].valor
    /\ retorno = hechos[1].valor

\* C20: on a value that is a number or absent, emision_per_capita_mayor_que
\* with target 0 is true exactly when the value is present and above 0,
\* and emision_per_capita_menor_que with target 2000 exactly when it is
\* present and below 2000; the value 0 is present.
C20_Estricto ==
    LET valor == PrimerValor(EmisionPerCapita, hechos) IN
    ( /\ llamada.op = "evaluar_condicion"
      /\ valor = None \/ valor.t = "num" ) =>
        /\ llamada.arg = CondicionMayorQue =>
              /\ excepcion = ""
              /\ retorno = PyBool(valor # None /\ valor.v > 0)
        /\ llamada.arg = CondicionMenorQue =>
              /\ excepcion = ""
              /\ retorno = PyBool(valor # None /\ valor.v < 2000)

\* emision_per_capita_menor_que 2000 was evaluated to true on the value 0.
C20_Testigo ==
    /\ llamada.op = "evaluar_condicion"
    /\ llamada.arg = CondicionMenorQue
    /\ PrimerValor(EmisionPerCapita, hechos) = Num(0)
    /\ retorno = "True"

\* ------------------------------------------------------------------------
\* Rule execution and the working memory: C21 to C23
\* ------------------------------------------------------------------------
\* The keys of a conclusion that give a derived fact.
ClavesDerivadas == {"sugerencia", "alerta"}

\* The memory holds a fact of this triple.
EnMemoria(hs, tipo, atributo, valor) ==
    \E i \in 1..Len(hs) :
        hs[i].tipo = tipo /\ hs[i].atributo = atributo /\ hs[i].valor = valor

\* C21: the step that executes a rule appends its record to the log and
\* extends the memory by the facts (inferencia, k, conclusion[k]) for the
\* keys k among sugerencia and alerta that the conclusion has and whose
\* fact the memory did not hold yet, and by nothing else; with neither key
\* the memory stays as it was.
C21_HechosDerivados ==
    [][ ( EnCorrida /\ Len(conclusiones') = Len(conclusiones) + 1 ) =>
          LET registro == conclusiones'[Len(conclusiones')]
              conclusion == registro.conclusion
              nuevos == {i \in 1..Len(hechos') : i > Len(hechos)}
          IN  /\ conclusiones' = Append(conclusiones, registro)
              /\ registro = Registro(fases'[Len(fases')].seleccionada[1].regla)
              /\ PrefijoDe(hechos, hechos')
              /\ \A k \in ClavesDerivadas :
                     ( k \in DOMAIN conclusion
                       /\ ~EnMemoria(hechos, <<"inferencia">>, <<k>>,
                                     conclusion[k]) )
                     <=> \E i \in nuevos :
                            /\ hechos'[i].tipo = <<"inferencia">>
                            /\ hechos'[i].atributo = <<k>>
                            /\ hechos'[i].valor = conclusion[k]
              /\ \A i \in nuevos :
                     /\ hechos'[i].tipo = <<"inferencia">>
                     /\ \E k \in ClavesDerivadas \cap DOMAIN conclusion :
                            /\ hechos'[i].atributo = <<k>>
                            /\ hechos'[i].valor = conclusion[k]
                     /\ \A j \in nuevos : j # i => ~MismaTerna(hechos'[i],
                                                               hechos'[j])
              /\ ClavesDerivadas \cap DOMAIN conclusion = {}
                     => hechos' = hechos ]_vars

\* In one run a rule with a sugerencia fired after another rule had derived
\* the same sugerencia, a rule with an alerta and a contexto fired, and the
\* memory holds one fact per derived value and none for the contexto.
C21_Testigo ==
    /\ EnCorrida
    /\ \E i, j \in FasesConSeleccion :
          /\ i < j
          /\ "sugerencia" \in DOMAIN Seleccionada(i).regla.conclusion
          /\ "sugerencia" \in DOMAIN Seleccionada(j).regla.conclusion
          /\ Seleccionada(i).regla.conclusion["sugerencia"]
                 = Seleccionada(j).regla.conclusion["sugerencia"]
    /\ \E k \in FasesConSeleccion :
          DOMAIN Seleccionada(k).regla.conclusion = {"alerta", "contexto"}
    /\ Cardinality({i \in 1..Len(hechos) :
                       hechos[i].tipo = <<"inferencia">>}) = 2

\* The ids of the rules that this call has fired.
DisparadasEnCorrida == {Seleccionada(k).id : k \in FasesConSeleccion}

\* C22: when the loop of a call ended in a MATCH phase that found no rule,
\* every rule of the loaded set whose conditions hold on the memory has its
\* id among the ids fired in that call.
C22_PuntoFijo ==
    Agotada =>
        \A i \in 1..Len(EnOrden(reglas)) :
            evaluar_condicion(EnOrden(reglas)[i].regla.condiciones, hechos)
                = "True"
            => EnOrden(reglas)[i].id \in DisparadasEnCorrida

\* A call returned after a MATCH phase that found no rule, two rules of
\* different groups having fired and their conditions still holding.
C22_Testigo ==
    /\ Agotada
    /\ pc = "idle"
    /\ Cardinality(DisparadasEnCorrida) = 2
    /\ \A k \in FasesConSeleccion :
          evaluar_condicion(Seleccionada(k).regla.condiciones, hechos) = "True"
    /\ \E i, j \in FasesConSeleccion :
          Seleccionada(i).grupo # Seleccionada(j).grupo

\* No two facts of the memory have the same triple.
SinDuplicados(hs) ==
    \A i, j \in 1..Len(hs) : i # j => ~MismaTerna(hs[i], hs[j])

\* C23: the memory never holds two facts of the same (tipo, atributo,
\* valor), and every step other than reiniciar keeps the facts that are in
\* memory, unaltered and in their order, before those it adds.
C23_MemoriaSoloCrece ==
    /\ SinDuplicados(hechos)
    /\ [][ /\ SinDuplicados(hechos')
           /\ llamada'.op # "reiniciar" => PrefijoDe(hechos, hechos') ]_vars

\* The record of the example was seeded twice and the memory is what one
\* seeding gives; and a run on it derived facts that follow the seeded ones.
C23_Testigo ==
    /\ datos_sembrados = << DatosEjemplo, DatosEjemplo >>
    /\ EnCorrida
    /\ FasesConSeleccion # {}
    /\ Len(hechos) > Len(inicializar_hechos_desde_usuario(<< >>, DatosEjemplo))
    /\ PrefijoDe(inicializar_hechos_desde_usuario(<< >>, DatosEjemplo), hechos)

\* ------------------------------------------------------------------------
\* Seeded activities: C24
\* ------------------------------------------------------------------------
\* The facts of tipo actividad, by their place in the memory.
HechosDeActividad(hs) == {i \in 1..Len(hs) : hs[i].tipo = <<"actividad">>}

\* The values that the activities of a list have for a field, None for an
\* activity without the field.
ValoresDeCampo(actividades, campo) ==
    {Get(actividades[n], campo, None) : n \in 1..Len(actividades)}

\* The fields of an activity that are seeded, with the atributo of each.
CamposDeActividad ==
    { [campo |-> "categoria", atributo |-> <<"categoria">>],
      [campo |-> "sub_categoria", atributo |-> <<"sub", "categoria">>],
      [campo |-> "cantidad", atributo |-> <<"cantidad">>] }

\* C24: after a list of activities was seeded into the empty memory, the
\* facts of tipo actividad are one per distinct categoria, one per distinct
\* sub_categoria and one per distinct cantidad of the list and no other:
\* four for two activities that differ in cantidad only, three for two
\* equal activities.
C24_HechosDeActividades ==
    ( Len(datos_sembrados) = 1 /\ agregados = 0 ) =>
        LET actividades == datos_sembrados[1].actividades
            de_actividad == HechosDeActividad(hechos)
        IN  /\ \A c \in CamposDeActividad :
                   {hechos[i].valor :
                        i \in {j \in de_actividad :
                                  hechos[j].atributo = c.atributo}}
                       = ValoresDeCampo(actividades, c.campo)
            /\ \A i \in de_actividad :
                   \E c \in CamposDeActividad : hechos[i].atributo = c.atributo
            /\ Cardinality(de_actividad)
                   = Cardinality(ValoresDeCampo(actividades, "categoria"))
                     + Cardinality(ValoresDeCampo(actividades, "sub_categoria"))
                     + Cardinality(ValoresDeCampo(actividades, "cantidad"))
            /\ ( /\ Len(actividades) = 2
                 /\ actividades[1].categoria = actividades[2].categoria
                 /\ actividades[1].sub_categoria = actividades[2].sub_categoria
                 /\ Get(actividades[1], "cantidad", None)
                        # Get(actividades[2], "cantidad", None) )
                   => Cardinality(de_actividad) = 4
            /\ ( Len(actividades) = 2 /\ actividades[1] = actividades[2] )
                   => Cardinality(de_actividad) = 3

\* Two activities of transporte by auto_gasolina, of 50 and of 20, were
\* seeded and the memory holds four facts of tipo actividad.
C24_Testigo ==
    /\ Len(datos_sembrados) = 1
    /\ Len(datos_sembrados[1].actividades) = 2
    /\ datos_sembrados[1].actividades[1].categoria
           = datos_sembrados[1].actividades[2].categoria
    /\ datos_sembrados[1].actividades[1].sub_categoria
           = datos_sembrados[1].actividades[2].sub_categoria
    /\ Get(datos_sembrados[1].actividades[1], "cantidad", None) = Num(50)
    /\ Get(datos_sembrados[1].actividades[2], "cantidad", None) = Num(20)
    /\ Cardinality(HechosDeActividad(hechos)) = 4

\* ------------------------------------------------------------------------
\* Rule ids and chaining: C25 to C27
\* ------------------------------------------------------------------------
\* The phases of this call that selected a rule of this id.
FasesDelId(id) == {j \in FasesConSeleccion : Seleccionada(j).id = id}

\* C25: in a call, no MATCH result holds a rule whose id an earlier phase
\* of the call selected, whatever the group of the rule; so when two rules
\* of different groups with one id are in one MATCH result, at most one
\* phase selects that id, the rules of the id are in no MATCH result after
\* that phase, and exactly one of them has fired when the loop ends in a
\* MATCH phase that finds no rule.
C25_SeguimientoPorId ==
    EnCorrida =>
        /\ \A k \in 1..Len(fases) : \A a \in 1..Len(fases[k].aplicables) :
               \A j \in FasesConSeleccion :
                   j < k => Seleccionada(j).id # fases[k].aplicables[a].id
        /\ \A k \in 1..Len(fases) : \A a, b \in 1..Len(fases[k].aplicables) :
               ( /\ fases[k].aplicables[a].id = fases[k].aplicables[b].id
                 /\ fases[k].aplicables[a].grupo
                        # fases[k].aplicables[b].grupo )
               => /\ Cardinality(FasesDelId(fases[k].aplicables[a].id)) <= 1
                  /\ Agotada =>
                        Cardinality(FasesDelId(fases[k].aplicables[a].id)) = 1

\* Two rules of different groups with one id matched in the first phase
\* and one of them fired; two more phases selected other rules, and the
\* other rule of the id was in neither MATCH result although its
\* conditions hold.
C25_Testigo ==
    /\ EnCorrida
    /\ Len(fases) = 3
    /\ FasesConSeleccion = {1, 2, 3}
    /\ \E a, b \in 1..Len(fases[1].aplicables) :
          /\ fases[1].aplicables[a].id = fases[1].aplicables[b].id
          /\ fases[1].aplicables[a].grupo # fases[1].aplicables[b].grupo
          /\ Seleccionada(1) = fases[1].aplicables[a]
          /\ \A k \in {2, 3} : \A c \in 1..Len(fases[k].aplicables) :
                fases[k].aplicables[c] # fases[1].aplicables[b]
          /\ evaluar_condicion(fases[1].aplicables[b].regla.condiciones,
                               hechos) = "True"

\* The targets that the rule requires of the derived attribute k: those of
\* the equality terms on k or inferencia_k of a condition under AND.
Requiere(regla, k) ==
    IF OperadorDe(regla.condiciones) # Txt("AND") THEN {}
    ELSE {regla.condiciones[i][2] :
             i \in {t \in 1..Len(regla.condiciones) :
                       regla.condiciones[t][1]
                           \in {<<k>>, <<"inferencia", k>>}}}

\* C26: when every fact of the memory was seeded or derived, the record of
\* a rule that requires a value of alerta or of sugerencia comes later in
\* the log than a record whose conclusion has that key with that value.
C26_Encadenamiento ==
    ( EnCorrida /\ agregados = 0 ) =>
        \A j \in FasesConSeleccion : \A k \in ClavesDerivadas :
            \A valor \in Requiere(Seleccionada(j).regla, k) :
                /\ conclusiones[Len(log_inicial) + j]
                       = Registro(Seleccionada(j).regla)
                /\ \E n \in 1..(Len(log_inicial) + j - 1) :
                       /\ k \in DOMAIN conclusiones[n].conclusion
                       /\ conclusiones[n].conclusion[k] = valor

\* A rule of priority 9 that requires a sugerencia fired in the second
\* phase, after the rule of priority 3 that produces it.
C26_Testigo ==
    /\ EnCorrida
    /\ agregados = 0
    /\ log_inicial = << >>
    /\ {1, 2} \subseteq FasesConSeleccion
    /\ Requiere(Seleccionada(2).regla, "sugerencia") # {}
    /\ "sugerencia" \in DOMAIN Seleccionada(1).regla.conclusion
    /\ Seleccionada(1).regla.prioridad < Seleccionada(2).regla.prioridad

\* The rule is in the MATCH result of phase m.
EnFase(m, r) ==
    \E c \in 1..Len(fases[m].aplicables) : fases[m].aplicables[c] = r

\* A rule of a MATCH result of this call holds on the memory ever after, and
\* is in every later MATCH result of the call up to the phase that selects
\* a rule of its id.
Monotonia ==
    \A k \in 1..Len(fases) : \A a \in 1..Len(fases[k].aplicables) :
        /\ evaluar_condicion(fases[k].aplicables[a].regla.condiciones, hechos)
               = "True"
        /\ \A m \in (k + 1)..Len(fases) :
               ( \A j \in FasesConSeleccion :
                     j < m => Seleccionada(j).id # fases[k].aplicables[a].id )
               => EnFase(m, fases[k].aplicables[a])

\* C27 as claimed: matching is monotone within a call, and when the loop
\* ends in a MATCH phase that finds no rule, every rule of a MATCH result
\* of the call has fired.
C27_MonotoniaOriginal ==
    EnCorrida =>
        /\ Monotonia
        /\ Agotada =>
              \A k \in 1..Len(fases) : \A a \in 1..Len(fases[k].aplicables) :
                  \E j \in FasesConSeleccion :
                      Seleccionada(j) = fases[k].aplicables[a]

\* C27: matching is monotone within a call, and when the loop ends in a
\* MATCH phase that finds no rule, every rule of a MATCH result of the call
\* has fired or has the id of another rule that fired; it has fired when
\* no other rule has its id.
C27_Monotonia ==
    EnCorrida =>
        /\ Monotonia
        /\ Agotada =>
              \A k \in 1..Len(fases) : \A a \in 1..Len(fases[k].aplicables) :
                  /\ fases[k].aplicables[a].id \in DisparadasEnCorrida
                  /\ ~IdRepetido(fases[k].aplicables[a].id) =>
                         \E j \in FasesConSeleccion :
                             Seleccionada(j) = fases[k].aplicables[a]

\* A rule that requires the first sugerencia matched in the second phase,
\* where a rule that derives another sugerencia was selected, and fired in
\* the third.
C27_Testigo ==
    /\ EnCorrida
    /\ FasesConSeleccion = {1, 2, 3}
    /\ EnFase(2, Seleccionada(3))
    /\ "sugerencia" \in DOMAIN Seleccionada(2).regla.conclusion
    /\ Requiere(Seleccionada(3).regla, "sugerencia") # {}
    /\ Seleccionada(2).regla.conclusion["sugerencia"]
           \notin Requiere(Seleccionada(3).regla, "sugerencia")

\* ------------------------------------------------------------------------
\* Seeded activities and matching: C28
\* ------------------------------------------------------------------------
\* The facts of tipo inferencia of a memory, in their order.
HechosInferidos(hs) == SelectSeq(hs, LAMBDA h : h.tipo = <<"inferencia">>)

\* The record with its first activity only.
ConPrimeraActividad(datos_usuario) ==
    [datos_usuario EXCEPT !.actividades = << @[1] >>]

\* C28: after a record with one or more activities was seeded into the
\* empty memory, the keys categoria, sub_categoria and cantidad resolve to
\* the fields of the first activity (None for a field it lacks), every rule
\* evaluates as it does on the memory that the record with its first
\* activity alone gives, and the first run logs what it logs on that memory.
C28_SoloPrimeraActividad ==
    ( /\ Len(datos_sembrados) = 1
      /\ agregados = 0
      /\ Len(datos_sembrados[1].actividades) >= 1 ) =>
        LET primera == datos_sembrados[1].actividades[1]
            memoria_sola ==
                inicializar_hechos_desde_usuario(
                    << >>, ConPrimeraActividad(datos_sembrados[1]))
            sola == ejecutar_inferencia(reglas, memoria_sola, << >>,
                                        llamada.arg)
        IN  /\ \A c \in CamposDeActividad :
                   buscar_valor_hecho(c.atributo, hechos)
                       = Get(primera, c.campo, None)
            /\ \A i \in 1..Len(EnOrden(reglas)) :
                   EvaluarRegla(EnOrden(reglas)[i], hechos)
                       = EvaluarRegla(EnOrden(reglas)[i],
                                      memoria_sola \o HechosInferidos(hechos))
            /\ ( EnCorrida /\ corridas = 1 ) =>
                   /\ PrefijoDe(conclusiones, sola.conclusiones)
                   /\ pc = "idle" =>
                          /\ conclusiones = sola.conclusiones
                          /\ HechosInferidos(hechos)
                                 = HechosInferidos(sola.hechos)

\* An activity of energia above 300 was seeded first and one of transporte
\* by auto_gasolina above 30 second; the run to exhaustion fired the rule
\* on energia and not the rule on transporte.
C28_Testigo ==
    /\ Len(datos_sembrados) = 1
    /\ Len(datos_sembrados[1].actividades) = 2
    /\ datos_sembrados[1].actividades[1].categoria = Txt("energia")
    /\ datos_sembrados[1].actividades[2]
           = [categoria |-> Txt("transporte"),
              sub_categoria |-> Txt("auto_gasolina"), cantidad |-> Num(50)]
    /\ Agotada
    /\ corridas = 1
    /\ "R3" \in DisparadasEnCorrida
    /\ "R1" \notin DisparadasEnCorrida

\* ------------------------------------------------------------------------
\* The key tipo_municipio: C29
\* ------------------------------------------------------------------------
TipoMunicipio == <<"tipo", "municipio">>

\* The ids of the default rules that require tipo_municipio to equal a text.
ReglasDeTipoMunicipio == {"R6", "R9", "R10"}

\* C29: while the memory holds seeded and derived facts only, the key
\* tipo_municipio designates no fact and its lookup gives None; and no MATCH
\* phase of a run on the default rule set selects R6, R9 or R10.
C29_TipoMunicipioNoResuelve ==
    agregados = 0 =>
        /\ \A i \in 1..Len(hechos) : ~Designa(hechos[i], TipoMunicipio)
        /\ buscar_valor_hecho(TipoMunicipio, hechos) = None
        /\ (EnCorrida /\ reglas = reglas_default) =>
               \A k \in 1..Len(fases) :
                   /\ \A n \in 1..Len(fases[k].aplicables) :
                          fases[k].aplicables[n].id \notin ReglasDeTipoMunicipio
                   /\ k \in FasesConSeleccion =>
                          Seleccionada(k).id \notin ReglasDeTipoMunicipio

\* The record of an Industrial Pesado municipality with an industry above
\* 50000 and a per-capita emission above 5000 was seeded and the default
\* rules ran three iterations: the memory holds municipio.tipo, and the
\* third rule fired has a priority below that of R9.
C29_Testigo ==
    /\ SesionSimple(DatosEjemplo)
    /\ reglas = reglas_default
    /\ pc = "idle"
    /\ buscar_valor_hecho(<<"municipio", "tipo">>, hechos)
           = Txt("Industrial Pesado")
    /\ buscar_valor_hecho(<<"emision", "industria">>, hechos) = Num(180000)
    /\ buscar_valor_hecho(EmisionPerCapita, hechos) = Num(8500)
    /\ FasesConSeleccion = {1, 2, 3}
    /\ Seleccionada(3).regla.prioridad < 10

\* ------------------------------------------------------------------------
\* Two calls of generar_sugerencias on one engine: C30
\* ------------------------------------------------------------------------
\* C30: a call of generar_sugerencias that has returned has returned what
\* it returns for its own municipality and profile on an engine that no
\* other call uses, whatever the steps of the other call were.
C30_Aislamiento ==
    \A c \in DOMAIN sesiones :
        sesiones[c].paso = "fin" =>
            sesiones[c].resultado
                = generar_sugerencias(reglas, sesiones[c].datos_municipio,
                                      sesiones[c].perfil)

====
